---- MODULE Spec2Model ----
(***************************************************************************)
(* TravelTide customer segmentation: the preprocessing core.               *)
(*                                                                         *)
(* Every function of the core is pure (DataFrame + configuration in,       *)
(* DataFrame + audit records out), so each engine gets its own             *)
(* specification over the same variables: the frame a caller passes, the   *)
(* configuration of the call, the position of the caller, and what the     *)
(* call returned (or the exception it raised).                             *)
(*                                                                         *)
(* Numbers are kept exact by scaling: quartiles are carried times 4,       *)
(* multipliers and thresholds in halves, timestamps in units of            *)
(* 1/DayUnits day.                                                         *)
(***************************************************************************)
EXTENDS Integers, Sequences, FiniteSets, TLC

VARIABLES
    df,      \* the DataFrame handed to the function under analysis
    config,  \* the configuration of the call (None before the call)
    pc,      \* the function about to be called, then the outcome of the call
    ret,     \* what the call returned or raised (None before the call)
    prev     \* what the call before returned, once a function is fed its own output

vars == <<df, config, pc, ret, prev>>

None == [none |-> TRUE]

(***************************************************************************)
(* Cells.  A numeric cell is an integer, NaN (a missing value, also NaT    *)
(* and pd.NA) or NonNumeric (a string no parser accepts).                  *)
(***************************************************************************)
NaN == -99
NonNumeric == -98

\* pd.to_numeric(x, errors="coerce"): what does not parse becomes NaN.
ToNumeric(x) == IF x = NonNumeric THEN NaN ELSE x

\* pd.to_datetime(x, utc=True, errors="coerce"): what does not parse becomes
\* NaT; a timestamp is an integer count of 1/DayUnits days.
ToDatetime(x) == IF x = NonNumeric THEN NaN ELSE x

\* the series pd.to_numeric(frame[col], errors="coerce"), indexed by row position
NumericSeries(frame, col) ==
    [i \in 1..Len(frame.rows) |-> ToNumeric(frame.rows[i][col])]

NotNa(s) == {i \in DOMAIN s : s[i] # NaN}

RECURSIVE SumOver(_, _)
SumOver(s, idx) ==
    IF idx = {} THEN 0
    ELSE LET i == CHOOSE j \in idx : TRUE IN s[i] + SumOver(s, idx \ {i})

\* the rows of a frame whose position is in mask, in their original order
RECURSIVE SelectRows(_, _, _)
SelectRows(rows, mask, i) ==
    IF i > Len(rows) THEN <<>>
    ELSE (IF i \in mask THEN <<rows[i]>> ELSE <<>>) \o SelectRows(rows, mask, i + 1)

Loc(frame, mask) == [columns |-> frame.columns, rows |-> SelectRows(frame.rows, mask, 1)]

RuleImpact(before, after) ==
    [rows_before |-> before, rows_after |-> after, rows_removed |-> before - after]

(***************************************************************************)
(* Outlier Removal Engine: remove_outliers.                                *)
(***************************************************************************)

\* k-th smallest (k from 0) of the non-null values of s
KthSmallest(s, k) ==
    LET nn == NotNa(s) IN
    CHOOSE v \in {s[i] : i \in nn} :
        /\ Cardinality({i \in nn : s[i] < v}) <= k
        /\ k < Cardinality({i \in nn : s[i] <= v})

\* 4 * s.quantile(q4 / 4), pandas' linear interpolation between the order
\* statistics around position (n - 1) * q; NaN for a series without values.
Quantile4(s, q4) ==
    LET n == Cardinality(NotNa(s)) IN
    IF n = 0 THEN NaN
    ELSE LET h4 == (n - 1) * q4
             lower == h4 \div 4
             frac4 == h4 % 4
         IN IF frac4 = 0 THEN 4 * KthSmallest(s, lower)
            ELSE 4 * KthSmallest(s, lower)
                 + frac4 * (KthSmallest(s, lower + 1) - KthSmallest(s, lower))

IqrDegenerate(s) ==
    \/ Quantile4(s, 1) = NaN
    \/ Quantile4(s, 3) - Quantile4(s, 1) = 0

\* keep = s.between(lo, hi): without "| s.isna()" a null is not kept
IqrBetween(s, multiplier) ==
    LET q1 == Quantile4(s, 1)
        q3 == Quantile4(s, 3)
        iqr == q3 - q1
    IN {i \in DOMAIN s :
          /\ s[i] # NaN
          /\ 2 * q1 - multiplier * iqr <= 8 * s[i]
          /\ 8 * s[i] <= 2 * q3 + multiplier * iqr}

\* keep = s.between(lo, hi) | s.isna(), with lo/hi = q1 -/+ m * iqr;
\* compared times 8 (quartiles times 4, the multiplier in halves).
IqrKeep(s, multiplier) ==
    LET q1 == Quantile4(s, 1)
        q3 == Quantile4(s, 3)
        iqr == q3 - q1
        lo8 == 2 * q1 - multiplier * iqr
        hi8 == 2 * q3 + multiplier * iqr
    IN {i \in DOMAIN s : s[i] = NaN \/ (lo8 <= 8 * s[i] /\ 8 * s[i] <= hi8)}

\* n^2 * s.std(ddof=0)^2 = n * sum(x^2) - sum(x)^2 over the non-null values
ScaledVariance(s) ==
    LET nn == NotNa(s)
        n == Cardinality(nn)
        sq == [i \in DOMAIN s |-> s[i] * s[i]]
    IN n * SumOver(sq, nn) - SumOver(s, nn) * SumOver(s, nn)

ZscoreDegenerate(s) == NotNa(s) = {} \/ ScaledVariance(s) = 0

\* keep = (|(s - mu) / sigma| <= threshold) | s.isna(); squared and scaled by
\* n^2 (and by 4: the threshold is in halves) to stay in the integers.
ZscoreKeep(s, threshold) ==
    LET nn == NotNa(s)
        n == Cardinality(nn)
        total == SumOver(s, nn)
        v == ScaledVariance(s)
    IN {i \in DOMAIN s :
          \/ s[i] = NaN
          \/ /\ threshold >= 0
             /\ 4 * (n * s[i] - total) * (n * s[i] - total) <= threshold * threshold * v}

\* mask_keep = keep: the column's mask replacing the cumulative one
ReplaceMask(mask_keep, keep) == keep

\* How one column's keep-mask joins the cumulative one: mask_keep &= keep
AccumulateMask(mask_keep, keep) == mask_keep \cap keep

\* rules[col] = impact: a dict keeps a key's first position and its last value
SetRule(rules, col, impact) ==
    [keys |-> IF \E k \in 1..Len(rules.keys) : rules.keys[k] = col
              THEN rules.keys ELSE Append(rules.keys, col),
     impact |-> [c \in DOMAIN rules.impact \cup {col} |->
                    IF c = col THEN impact ELSE rules.impact[c]]]

EmptyRules == [keys |-> <<>>, impact |-> <<>>]

\* cols = [c for c in config.outliers.columns if c in out.columns]
RECURSIVE PresentColumns(_, _, _)
PresentColumns(columns, frame, i) ==
    IF i > Len(columns) THEN <<>>
    ELSE (IF columns[i] \in frame.columns THEN <<columns[i]>> ELSE <<>>)
         \o PresentColumns(columns, frame, i + 1)

\* the statistics taken over the rows mask_keep still holds only
SurvivorSeries(frame, col, mask_keep) ==
    [i \in 1..Len(frame.rows) |->
        IF i \in mask_keep THEN ToNumeric(frame.rows[i][col]) ELSE NaN]

\* s = pd.to_numeric(out[col], errors="coerce"): out is never filtered inside
\* the loop, so the statistics of a column cover every row of the input,
\* whatever mask_keep holds at that column's turn.
StepSeries(frame, col, mask_keep) == NumericSeries(frame, col)

\* rows_before = len(out): the size of the input, not of the cumulative mask
InputRows(frame, mask_keep) == Len(frame.rows)

\* rows_before = int(mask_keep.sum())
RowsBefore(frame, mask_keep) == Cardinality(mask_keep)

\* One pass of the loop body over column col.
OutlierStep(frame, cfg, st, col) ==
    LET s == StepSeries(frame, col, st.mask_keep)
        rows_before == RowsBefore(frame, st.mask_keep)
        Join(keep) ==
            LET m == AccumulateMask(st.mask_keep, keep) IN
            [st EXCEPT !.mask_keep = m,
                       !.rules = SetRule(st.rules, col,
                                         RuleImpact(rows_before, Cardinality(m)))]
    IN IF st.raised # "none" THEN st
       ELSE IF cfg.method = "iqr"
         THEN IF IqrDegenerate(s) THEN st ELSE Join(IqrKeep(s, cfg.iqr_multiplier))
       ELSE IF cfg.method = "zscore"
         THEN IF ZscoreDegenerate(s) THEN st ELSE Join(ZscoreKeep(s, cfg.zscore_threshold))
       ELSE [st EXCEPT !.raised = "ValueError"]

\* The loop state after the first k columns of cols.
RECURSIVE OutlierLoop(_, _, _, _)
OutlierLoop(frame, cfg, cols, k) ==
    IF k = 0
    THEN [mask_keep |-> 1..Len(frame.rows), rules |-> EmptyRules, raised |-> "none"]
    ELSE OutlierStep(frame, cfg, OutlierLoop(frame, cfg, cols, k - 1), cols[k])

remove_outliers(frame, cfg) ==
    LET cols == PresentColumns(cfg.columns, frame, 1) IN
    IF cols = <<>>
    THEN [raised |-> "none", out |-> frame, rules |-> EmptyRules]
    ELSE LET st == OutlierLoop(frame, cfg, cols, Len(cols)) IN
         IF st.raised # "none"
         THEN [raised |-> st.raised, out |-> None, rules |-> EmptyRules]
         ELSE [raised |-> "none", out |-> Loc(frame, st.mask_keep), rules |-> st.rules]

(***************************************************************************)
(* Inputs of the outlier engine.                                           *)
(***************************************************************************)
MaxRows == 3          \* rows of a session frame
MaxVal == 1           \* numeric cells range over 0..MaxVal
MaxColumns == 2       \* length of config.outliers.columns

OutlierFrameColumns == {"page_clicks", "base_fare_usd"}
\* "seats" is a column the configuration may name and the frames lack
OutlierConfigColumns == OutlierFrameColumns \cup {"seats"}

CellValues == {NaN, NonNumeric} \cup 0..MaxVal

OutlierFrames ==
    {[columns |-> OutlierFrameColumns, rows |-> r] :
        r \in UNION {[1..n -> [OutlierFrameColumns -> CellValues]] : n \in 0..MaxRows}}

\* iqr_multiplier and zscore_threshold are in halves; "mad" is a method the
\* code does not know.
OutlierConfigs ==
    {[method |-> m[1], iqr_multiplier |-> m[2], zscore_threshold |-> m[3], columns |-> c] :
        m \in {<<"iqr", 0, 10>>, <<"iqr", 1, 10>>, <<"zscore", 3, 1>>,
               <<"zscore", 3, 2>>, <<"mad", 3, 10>>},
        c \in UNION {[1..n -> OutlierConfigColumns] : n \in 0..MaxColumns}}

InitOutliers ==
    /\ df \in OutlierFrames
    /\ config = None
    /\ pc = "remove_outliers"
    /\ ret = None
    /\ prev = None

RemoveOutliers ==
    /\ pc = "remove_outliers"
    /\ \E cfg \in OutlierConfigs :
          /\ config' = cfg
          /\ ret' = remove_outliers(df, cfg)
          /\ pc' = IF ret'.raised = "none" THEN "done" ELSE "raised"
    /\ UNCHANGED <<df, prev>>

NextOutliers == RemoveOutliers

SpecOutliers == InitOutliers /\ [][NextOutliers]_vars

(***************************************************************************)
(* Validity & Cleaning Engine: apply_validity_rules.                       *)
(***************************************************************************)
DayUnits == 2   \* timestamp units per day (the code divides seconds by 86400)

\* np.ceil(d / DayUnits) for an integer d of either sign
CeilDays(d) == -((-d) \div DayUnits)

\* invalid = nights <= 0: the null values not counted as invalid
NonPositiveNights(frame) ==
    LET nights == NumericSeries(frame, "nights") IN
    {i \in DOMAIN nights : nights[i] # NaN /\ nights[i] <= 0}

\* nights.isna() | (nights <= 0) over pd.to_numeric(out["nights"])
InvalidNights(frame) ==
    LET nights == NumericSeries(frame, "nights") IN
    {i \in DOMAIN nights : nights[i] = NaN \/ nights[i] <= 0}

\* ceil of the stay in days where both timestamps parse and it is >= 1, else NaN
Recomputed(row) ==
    LET check_in == ToDatetime(row["check_in_time"])
        check_out == ToDatetime(row["check_out_time"])
    IN IF check_in = NaN \/ check_out = NaN THEN NaN
       ELSE IF CeilDays(check_out - check_in) >= 1
            THEN CeilDays(check_out - check_in) ELSE NaN

\* out["nights"] = recomputed: the assignment without its .loc[invalid]
RecomputeEveryRow(frame, invalid) ==
    [i \in 1..Len(frame.rows) |->
        [c \in frame.columns |->
            IF c = "nights" THEN Recomputed(frame.rows[i])
            ELSE IF c \in {"check_in_time", "check_out_time"}
            THEN ToDatetime(frame.rows[i][c])
            ELSE frame.rows[i][c]]]

\* the frame out.loc[invalid, "nights"] = recomputed.loc[invalid] leaves, with
\* both timestamp columns replaced by their parsed values
RecomputeRows(frame, invalid) ==
    [i \in 1..Len(frame.rows) |->
        [c \in frame.columns |->
            IF c = "nights"
            THEN (IF i \in invalid THEN Recomputed(frame.rows[i]) ELSE frame.rows[i][c])
            ELSE IF c \in {"check_in_time", "check_out_time"}
            THEN ToDatetime(frame.rows[i][c])
            ELSE frame.rows[i][c]]]

Returned(frame) == [raised |-> "none", out |-> frame]
Raised(exc) == [raised |-> exc, out |-> None]

fix_invalid_hotel_nights(frame, policy) ==
    IF "nights" \notin frame.columns THEN Returned(frame)
    ELSE LET invalid == InvalidNights(frame) IN
         IF policy = "drop"
         THEN Returned(Loc(frame, (1..Len(frame.rows)) \ invalid))
         ELSE IF policy # "recompute" THEN Raised("ValueError")
         ELSE IF ~({"check_in_time", "check_out_time"} \subseteq frame.columns)
         THEN Raised("KeyError")
         ELSE Returned([columns |-> frame.columns, rows |-> RecomputeRows(frame, invalid)])

_resolve_duplicate_keys(frame) ==
    IF "session_id" \in frame.columns THEN <<"session_id">>
    ELSE IF {"user_id", "session_start", "session_end"} \subseteq frame.columns
    THEN <<"user_id", "session_start", "session_end">>
    ELSE IF {"user_id", "session_start"} \subseteq frame.columns
    THEN <<"user_id", "session_start">>
    ELSE <<>>

\* df.duplicated(subset=keys[:1]): only the first key column compared
FirstKeyOf(row, keys) == <<row[keys[1]]>>

KeyOf(row, keys) == [k \in 1..Len(keys) |-> row[keys[k]]]

detect_duplicate_sessions(frame) ==
    LET keys == _resolve_duplicate_keys(frame)
        n == Len(frame.rows)
        Key(i) == KeyOf(frame.rows[i], keys)
    IN IF keys = <<>>
       THEN [keys |-> keys, status |-> "skipped", decision |-> "flag_only",
             duplicate_rows |-> 0, rows_in_duplicate_groups |-> 0, duplicate_groups |-> 0]
       ELSE [keys |-> keys, status |-> "evaluated", decision |-> "flag_only",
             duplicate_rows |->
                Cardinality({i \in 1..n : \E j \in 1..(i - 1) : Key(j) = Key(i)}),
             rows_in_duplicate_groups |->
                Cardinality({i \in 1..n : \E j \in 1..n : j # i /\ Key(j) = Key(i)}),
             duplicate_groups |->
                Cardinality({Key(i) : i \in {i \in 1..n :
                                \E j \in 1..n : j # i /\ Key(j) = Key(i)}})]

\* min_value / max_value are NaN when the bound is not given
_range_check(frame, column, min_value, max_value) ==
    IF column \notin frame.columns
    THEN [column |-> column, status |-> "skipped", decision |-> "flag_only",
          invalid_count |-> 0]
    ELSE LET s == NumericSeries(frame, column) IN
         [column |-> column, status |-> "evaluated", decision |-> "flag_only",
          invalid_count |->
             Cardinality({i \in DOMAIN s :
                /\ s[i] # NaN
                /\ \/ (min_value # NaN /\ s[i] < min_value)
                   \/ (max_value # NaN /\ s[i] > max_value)})]

_datetime_order_check(frame, name, earlier_col, later_col) ==
    IF earlier_col \notin frame.columns \/ later_col \notin frame.columns
    THEN [name |-> name, status |-> "skipped", decision |-> "flag_only",
          invalid_count |-> 0]
    ELSE [name |-> name, status |-> "evaluated", decision |-> "flag_only",
          invalid_count |->
             Cardinality({i \in 1..Len(frame.rows) :
                LET earlier == ToDatetime(frame.rows[i][earlier_col])
                    later == ToDatetime(frame.rows[i][later_col])
                IN earlier # NaN /\ later # NaN /\ later < earlier})]

ValidationChecks(frame) ==
    [duplicates |-> detect_duplicate_sessions(frame),
     range_checks |->
        [session_duration_sec |-> _range_check(frame, "session_duration_sec", 0, NaN),
         age_years |-> _range_check(frame, "age_years", 0, 120),
         nights |-> _range_check(frame, "nights", 1, NaN),
         rooms |-> _range_check(frame, "rooms", 1, NaN),
         seats |-> _range_check(frame, "seats", 1, NaN)],
     logical_checks |->
        [session_end_before_start |->
            _datetime_order_check(frame, "session_end_before_start",
                                  "session_start", "session_end"),
         birthdate_after_session_start |->
            _datetime_order_check(frame, "birthdate_after_session_start",
                                  "birthdate", "session_start")]]

\* rows_before / rows_after of the one corrective rule
NightsImpact(rows_before, rows_after) == RuleImpact(rows_before, rows_after)

apply_validity_rules(frame, cfg) ==
    LET validation_checks == ValidationChecks(frame)
        policy == cfg.invalid_hotel_nights_policy
    IN IF "nights" \notin frame.columns
       THEN [raised |-> "none", out |-> frame, validity_rules |-> EmptyRules,
             invalid_hotel_nights_meta |-> <<>>, validation_checks |-> validation_checks]
       ELSE
         LET invalid_mask == InvalidNights(frame)
             invalid_detected == Cardinality(invalid_mask)
             rows_before == Len(frame.rows)
             Result(out, meta) ==
                [raised |-> "none", out |-> out,
                 validity_rules |->
                    SetRule(EmptyRules, "invalid_hotel_nights",
                            NightsImpact(rows_before, Len(out.rows))),
                 invalid_hotel_nights_meta |-> meta,
                 validation_checks |-> validation_checks]
         IN IF policy = "drop"
            THEN Result(Loc(frame, (1..rows_before) \ invalid_mask),
                        [policy |-> "drop", invalid_detected |-> invalid_detected,
                         dropped_rows |-> invalid_detected, decision |-> "drop"])
            ELSE LET fixed == fix_invalid_hotel_nights(frame, policy) IN
                 IF fixed.raised # "none"
                 THEN [raised |-> fixed.raised, out |-> None, validity_rules |-> EmptyRules,
                       invalid_hotel_nights_meta |-> <<>>, validation_checks |-> None]
                 ELSE LET recomputed == NumericSeries(fixed.out, "nights")
                          recomputed_success ==
                              Cardinality({i \in invalid_mask : recomputed[i] >= 1})
                      IN Result(fixed.out,
                                [policy |-> "recompute",
                                 invalid_detected |-> invalid_detected,
                                 recomputed_success |-> recomputed_success,
                                 still_missing |-> invalid_detected - recomputed_success,
                                 decision |-> "recompute"])

(***************************************************************************)
(* Inputs of the validity engine.                                          *)
(***************************************************************************)
MaxSessions == 2      \* rows of a frame handed to apply_validity_rules
MaxNights == 1        \* nights cells range over -1..MaxNights
MaxTime == 2          \* timestamps range over 0..MaxTime

ValidityColumns == {"nights", "check_in_time", "check_out_time"}

NightsCells == {NaN, NonNumeric} \cup (-1)..MaxNights

TimeCells == {NaN, NonNumeric} \cup 0..MaxTime

RowsOver(columns) ==
    {[c \in columns |-> IF c = "nights" THEN t[1]
                         ELSE IF c = "check_in_time" THEN t[2] ELSE t[3]] :
        t \in NightsCells \X TimeCells \X TimeCells}

ValidityFrames ==
    UNION {{[columns |-> cols, rows |-> r] :
              r \in UNION {[1..n -> RowsOver(cols)] : n \in 0..MaxSessions}} :
           cols \in SUBSET ValidityColumns}

\* "flag" is a policy the code does not know
ValidityConfigs ==
    {[invalid_hotel_nights_policy |-> p] : p \in {"recompute", "drop", "flag"}}

InitValidity ==
    /\ df \in ValidityFrames
    /\ config = None
    /\ pc = "apply_validity_rules"
    /\ ret = None
    /\ prev = None

ApplyValidityRules ==
    /\ pc = "apply_validity_rules"
    /\ \E cfg \in ValidityConfigs :
          /\ config' = cfg
          /\ ret' = apply_validity_rules(df, cfg)
          /\ pc' = IF ret'.raised = "none" THEN "applied" ELSE "raised"
    /\ UNCHANGED <<df, prev>>

\* the caller feeds the function its own output, under the same configuration
ReapplyValidityRules ==
    /\ pc = "applied"
    /\ df' = ret.out
    /\ prev' = ret
    /\ ret' = apply_validity_rules(ret.out, config)
    /\ pc' = IF ret'.raised = "none" THEN "reapplied" ELSE "raised again"
    /\ UNCHANGED config

NextValidity == ApplyValidityRules \/ ReapplyValidityRules

SpecValidity == InitValidity /\ [][NextValidity]_vars

\* both cleaning engines, for what is claimed of every RuleImpact
InitCleaning == InitOutliers \/ InitValidity

NextCleaning == RemoveOutliers \/ ApplyValidityRules \/ ReapplyValidityRules

SpecCleaning == InitCleaning /\ [][NextCleaning]_vars

(***************************************************************************)
(* Inputs of the data-quality checks: frames that carry duplicates, range  *)
(* violations and order violations beside the nights anomaly.              *)
(***************************************************************************)
MaxCheckRows == 4

MaxKey == 2

CheckColumns ==
    {"session_id", "user_id", "session_start", "session_end", "seats",
     "nights", "check_in_time", "check_out_time"}

\* a session row: key is its identifier (also its user), t its start time;
\* the session ends at 1, so t = 2 is an inverted session; seats is t - 1 and
\* nights key - 1, so the low values are out of range; the stay runs from 0
\* to t
CheckRow(columns, key, t) ==
    [c \in columns |->
        IF c \in {"session_id", "user_id"} THEN key
        ELSE IF c \in {"session_start", "check_out_time"} THEN t
        ELSE IF c = "session_end" THEN 1
        ELSE IF c = "seats" THEN (IF t = NaN THEN NaN ELSE t - 1)
        ELSE IF c = "nights" THEN (IF key = NaN THEN NaN ELSE key - 1)
        ELSE 0]

\* every column, or without what the key resolution, the nights rule and the
\* recomputation look for
CheckColumnSets ==
    {CheckColumns \ absent :
        absent \in {{}, {"session_id"}, {"session_id", "session_end"},
                    {"session_id", "user_id"}, {"nights"}, {"check_in_time"}}}

CheckFrames ==
    {[columns |-> cols,
      rows |-> [i \in 1..Len(cells) |-> CheckRow(cols, cells[i][1], cells[i][2])]] :
        cols \in CheckColumnSets,
        cells \in UNION {[1..n -> (({NaN} \cup 1..MaxKey) \X {NaN, 1, 2})] :
                            n \in 0..MaxCheckRows}}

InitChecks ==
    /\ df \in CheckFrames
    /\ config = None
    /\ pc \in {"apply_validity_rules", "detect_duplicate_sessions"}
    /\ ret = None
    /\ prev = None

DetectDuplicateSessions ==
    /\ pc = "detect_duplicate_sessions"
    /\ ret' = detect_duplicate_sessions(df)
    /\ pc' = "detected"
    /\ UNCHANGED <<df, config, prev>>

NextChecks == ApplyValidityRules \/ DetectDuplicateSessions

SpecChecks == InitChecks /\ [][NextChecks]_vars

(***************************************************************************)
(* Aggregation Engine: aggregate_user_level.                               *)
(*                                                                         *)
(* A mean is carried as [sum, count] over the non-null values of the       *)
(* group: the mean is sum/count, and NaN when count is 0.  Booleans are 0  *)
(* and 1, category values are small integers.                              *)
(***************************************************************************)
RECURSIVE SortedSeq(_)
SortedSeq(S) ==
    IF S = {} THEN <<>>
    ELSE LET m == CHOOSE x \in S : \A y \in S : x <= y
         IN <<m>> \o SortedSeq(S \ {m})

\* the group keys of frame.groupby(by, dropna=dropna): the distinct values in
\* ascending order, the null key last and only when dropna is False
GroupKeys(frame, by, dropna) ==
    LET vals == {frame.rows[i][by] : i \in 1..Len(frame.rows)} IN
    SortedSeq(vals \ {NaN})
        \o (IF ~dropna /\ NaN \in vals THEN <<NaN>> ELSE <<>>)

\* df.groupby("user_id"): pandas' default, which drops the null key
UserGroupsDropna(frame) == GroupKeys(frame, "user_id", TRUE)

\* df.groupby("user_id", dropna=False)
UserGroups(frame) == GroupKeys(frame, "user_id", FALSE)

\* the positions of the rows of one group
GroupRows(frame, by, key) == {i \in 1..Len(frame.rows) : frame.rows[i][by] = key}

Nunique(frame, idx, col) == Cardinality({frame.rows[i][col] : i \in idx} \ {NaN})

Mean(frame, idx, col) ==
    LET s == NumericSeries(frame, col)
        nn == {i \in idx : s[i] # NaN}
    IN [sum |-> SumOver(s, nn), count |-> Cardinality(nn)]

\* s.dropna().iloc[-1] if len(s.dropna()) else pd.NA: the last known value
LastNonNull(frame, idx, col) ==
    LET nn == {i \in idx : frame.rows[i][col] # NaN} IN
    IF nn = {} THEN NaN
    ELSE frame.rows[CHOOSE i \in nn : \A j \in nn : i >= j][col]

\* s.dropna().iloc[0] if len(s.dropna()) else pd.NA
FirstNonNull(frame, idx, col) ==
    LET nn == {i \in idx : frame.rows[i][col] # NaN} IN
    IF nn = {} THEN NaN
    ELSE frame.rows[CHOOSE i \in nn : \A j \in nn : i <= j][col]

\* the behavioural KPIs, in the order the code builds them: <<output, source>>
UserAggregates ==
    << <<"n_sessions", "session_id">>,
       <<"avg_page_clicks", "page_clicks">>,
       <<"p_flight_booked", "flight_booked">>,
       <<"p_hotel_booked", "hotel_booked">>,
       <<"p_cancellation_session", "cancellation">>,
       <<"avg_base_fare_usd", "base_fare_usd">>,
       <<"avg_hotel_per_room_usd", "hotel_per_room_usd">>,
       <<"avg_nights", "nights">>,
       <<"avg_rooms", "rooms">>,
       <<"avg_seats", "seats">> >>

BehaviourColumns == {UserAggregates[k][2] : k \in 1..Len(UserAggregates)}

DimColumns ==
    {"gender", "married", "has_children", "home_country", "home_city",
     "home_airport", "sign_up_date", "birthdate"}

\* every column the function names selected unconditionally, dimensions too
AllSelectable(frame) == (BehaviourColumns \cup DimColumns) \subseteq frame.columns

\* g[col] on a group-by raises KeyError for a column the frame lacks; every
\* behavioural column is selected unconditionally
SelectableColumns(frame) == BehaviourColumns \subseteq frame.columns

\* left.merge(right, on=key, how="left"): each left row once per right row of
\* the same key (null keys match each other), or once with nulls when no right
\* row has its key
RECURSIVE MergeLeft(_, _, _, _, _)
MergeLeft(left, right, key, right_cols, i) ==
    IF i > Len(left) THEN <<>>
    ELSE LET matches == {j \in 1..Len(right) : right[j][key] = left[i][key]}
             Joined(j) ==
                [c \in DOMAIN left[i] \cup right_cols |->
                    IF c \in DOMAIN left[i] THEN left[i][c]
                    ELSE IF j = 0 THEN NaN ELSE right[j][c]]
             RECURSIVE Each(_)
             Each(js) ==
                IF js = {} THEN <<>>
                ELSE LET j == CHOOSE x \in js : \A y \in js : x <= y
                     IN <<Joined(j)>> \o Each(js \ {j})
         IN (IF matches = {} THEN <<Joined(0)>> ELSE Each(matches))
            \o MergeLeft(left, right, key, right_cols, i + 1)

aggregate_user_level(frame) ==
    IF "user_id" \notin frame.columns THEN Raised("KeyError")
    ELSE IF ~SelectableColumns(frame) THEN Raised("KeyError")
    ELSE
      LET keys == UserGroups(frame)
          Idx(k) == GroupRows(frame, "user_id", keys[k])
          Kpi(k, out_col) ==
             LET src == (CHOOSE a \in {UserAggregates[x] : x \in 1..Len(UserAggregates)} :
                            a[1] = out_col)[2]
             IN IF out_col = "n_sessions" THEN Nunique(frame, Idx(k), src)
                ELSE Mean(frame, Idx(k), src)
          kpi_cols == {UserAggregates[x][1] : x \in 1..Len(UserAggregates)}
          user == [k \in 1..Len(keys) |->
                     [c \in {"user_id"} \cup kpi_cols |->
                        IF c = "user_id" THEN keys[k] ELSE Kpi(k, c)]]
          dim_cols == DimColumns \cap frame.columns
          dim == [k \in 1..Len(keys) |->
                     [c \in {"user_id"} \cup dim_cols |->
                        IF c = "user_id" THEN keys[k]
                        ELSE FirstNonNull(frame, Idx(k), c)]]
      IN IF dim_cols = {}
         THEN Returned([columns |-> {"user_id"} \cup kpi_cols, rows |-> user])
         ELSE Returned([columns |-> {"user_id"} \cup kpi_cols \cup dim_cols,
                        rows |-> MergeLeft(user, dim, "user_id", dim_cols, 1)])

(***************************************************************************)
(* Inputs of the aggregation engine.                                       *)
(***************************************************************************)
MaxUserRows == 3      \* rows of a frame handed to an aggregation
MaxUserId == 2        \* user ids range over 1..MaxUserId, or are null
MaxCategory == 2      \* category values range over 1..MaxCategory, or are null
MaxMissing == 1       \* identifier / behavioural columns a frame may lack

SessionColumns == {"user_id"} \cup BehaviourColumns \cup DimColumns

\* Sessions are numbered by position (session_id is unique per row), user_id
\* and gender vary, every other cell present holds 1.
SessionRow(columns, i, uid, gender) ==
    [c \in columns |->
        IF c = "user_id" THEN uid
        ELSE IF c = "session_id" THEN i
        ELSE IF c = "gender" THEN gender
        ELSE 1]

\* the column sets: up to MaxMissing of the identifier and behavioural columns
\* missing, and none, one or all of the dimension columns missing
SessionColumnSets ==
    {SessionColumns \ (b \cup d) :
        b \in {x \in SUBSET ({"user_id"} \cup BehaviourColumns) : Cardinality(x) <= MaxMissing},
        d \in {{}, DimColumns} \cup {{x} : x \in DimColumns}}

SessionFrames ==
    {[columns |-> cols,
      rows |-> [i \in 1..Len(cells) |-> SessionRow(cols, i, cells[i][1], cells[i][2])]] :
        cols \in SessionColumnSets,
        cells \in UNION {[1..n -> (({NaN} \cup 1..MaxUserId) \X ({NaN} \cup 1..MaxCategory))] :
                            n \in 0..MaxUserRows}}

InitAggregation ==
    /\ df \in SessionFrames
    /\ config = None
    /\ pc = "aggregate_user_level"
    /\ ret = None
    /\ prev = None

AggregateUserLevel ==
    /\ pc = "aggregate_user_level"
    /\ ret' = aggregate_user_level(df)
    /\ pc' = IF ret'.raised = "none" THEN "aggregated" ELSE "raised"
    /\ UNCHANGED <<df, config, prev>>

NextAggregation == AggregateUserLevel

SpecAggregation == InitAggregation /\ [][NextAggregation]_vars

(***************************************************************************)
(* Feature builders: build_user_features and build_customer_features.      *)
(*                                                                         *)
(* A span of days and a ratio are carried as [num, den]; a column the      *)
(* code fills with np.nan or pd.NaT holds NaN.                             *)
(***************************************************************************)
\* the value of the <<output, source>> table for one output name
SourceOf(table, name) ==
    table[CHOOSE x \in 1..Len(table) : table[x][1] = name][2]

Outputs(table) == {table[x][1] : x \in 1..Len(table)}

\* (values > 0).where(values.notna()).mean()
_rate_positive(frame, idx, col) ==
    LET values == NumericSeries(frame, col)
        mask == {i \in idx : values[i] # NaN}
    IN [sum |-> Cardinality({i \in mask : values[i] > 0}), count |-> Cardinality(mask)]

\* the parsed timestamps of a group, nulls left out
GroupTimes(frame, idx, col) == {ToDatetime(frame.rows[i][col]) : i \in idx} \ {NaN}

MinOf(S) == IF S = {} THEN NaN ELSE CHOOSE x \in S : \A y \in S : x <= y

MaxOf(S) == IF S = {} THEN NaN ELSE CHOOSE x \in S : \A y \in S : x >= y

\* (times.max() - times.min()).total_seconds() / 86400.0, NaN if all are NaT
_session_span_days(frame, idx, col) ==
    LET times == GroupTimes(frame, idx, col) IN
    IF times = {} THEN NaN
    ELSE [num |-> MaxOf(times) - MinOf(times), den |-> DayUnits]

\* mean_map / source_cols
MeanFeatures ==
    << <<"avg_page_clicks", "page_clicks">>,
       <<"avg_session_duration_sec", "session_duration_sec">>,
       <<"avg_base_fare_usd", "base_fare_usd">>,
       <<"avg_hotel_per_room_usd", "hotel_per_room_usd">>,
       <<"avg_nights", "nights">>,
       <<"avg_rooms", "rooms">>,
       <<"avg_seats", "seats">>,
       <<"avg_checked_bags", "checked_bags">>,
       <<"avg_flight_discount", "flight_discount">>,
       <<"avg_hotel_discount", "hotel_discount">>,
       <<"avg_flight_discount_amount", "flight_discount_amount">>,
       <<"avg_hotel_discount_amount", "hotel_discount_amount">>,
       <<"avg_customer_tenure_days", "customer_tenure_days">>,
       <<"avg_age_years", "age_years">> >>

\* rate_cols
RateFeatures ==
    << <<"p_flight_booked", "flight_booked">>,
       <<"p_hotel_booked", "hotel_booked">>,
       <<"p_cancellation_session", "cancellation">>,
       <<"p_return_flight_booked", "return_flight_booked">> >>

\* discount_rate_cols
DiscountRateFeatures ==
    << <<"p_flight_discount", "flight_discount">>,
       <<"p_hotel_discount", "hotel_discount">> >>

SessionTimeFeatures ==
    {"first_session_ts", "last_session_ts", "session_span_days", "sessions_per_active_day"}

\* the columns of the feature frame before the dimensions are merged in
UserFeatureColumns ==
    {"user_id", "n_sessions", "n_trips"}
        \cup Outputs(MeanFeatures) \cup Outputs(RateFeatures)
        \cup Outputs(DiscountRateFeatures) \cup SessionTimeFeatures

\* the feature row of one group
UserFeatureRow(frame, key) ==
    LET idx == GroupRows(frame, "user_id", key)
        n_sessions == Nunique(frame, idx, "session_id")
        timed == "session_start" \in frame.columns
        span == IF timed THEN _session_span_days(frame, idx, "session_start") ELSE NaN
        MeanOr(col) == IF col \in frame.columns THEN Mean(frame, idx, col) ELSE NaN
    IN [c \in UserFeatureColumns |->
          IF c = "user_id" THEN key
          ELSE IF c = "n_sessions" THEN n_sessions
          ELSE IF c = "n_trips"
               THEN (IF "trip_id" \in frame.columns THEN Nunique(frame, idx, "trip_id") ELSE 0)
          ELSE IF c \in Outputs(MeanFeatures) THEN MeanOr(SourceOf(MeanFeatures, c))
          ELSE IF c \in Outputs(RateFeatures) THEN MeanOr(SourceOf(RateFeatures, c))
          ELSE IF c \in Outputs(DiscountRateFeatures)
               THEN (IF SourceOf(DiscountRateFeatures, c) \in frame.columns
                     THEN _rate_positive(frame, idx, SourceOf(DiscountRateFeatures, c))
                     ELSE NaN)
          ELSE IF c = "first_session_ts"
               THEN (IF timed THEN MinOf(GroupTimes(frame, idx, "session_start")) ELSE NaN)
          ELSE IF c = "last_session_ts"
               THEN (IF timed THEN MaxOf(GroupTimes(frame, idx, "session_start")) ELSE NaN)
          ELSE IF c = "session_span_days" THEN span
          ELSE \* n_sessions / (session_span_days + 1)
               IF ~timed \/ GroupTimes(frame, idx, "session_start") = {} THEN NaN
               ELSE [num |-> n_sessions * span.den, den |-> span.num + span.den]]

build_user_features(frame) ==
    IF "user_id" \notin frame.columns THEN Raised("KeyError")
    ELSE IF "session_id" \notin frame.columns THEN Raised("KeyError")
    ELSE
      LET keys == GroupKeys(frame, "user_id", FALSE)
          features == [k \in 1..Len(keys) |-> UserFeatureRow(frame, keys[k])]
          dim_cols == DimColumns \cap frame.columns
          dim == [k \in 1..Len(keys) |->
                    [c \in {"user_id"} \cup dim_cols |->
                        IF c = "user_id" THEN keys[k]
                        ELSE FirstNonNull(frame, GroupRows(frame, "user_id", keys[k]), c)]]
      IN Returned([columns |-> UserFeatureColumns \cup dim_cols,
                   rows |-> IF dim_cols = {} THEN features
                            ELSE MergeLeft(features, dim, "user_id", dim_cols, 1)])

\* _build_mean_aggs: {prefix + col: (col, "mean")}
RECURSIVE _build_mean_aggs(_, _)
_build_mean_aggs(columns, prefix) ==
    IF columns = <<>> THEN <<>>
    ELSE << <<prefix \o Head(columns), Head(columns), "mean">> >>
            \o _build_mean_aggs(Tail(columns), prefix)

\* _build_max_aggs and _build_first_aggs: {col: (col, how)}
RECURSIVE _build_same_name_aggs(_, _)
_build_same_name_aggs(columns, how) ==
    IF columns = <<>> THEN <<>>
    ELSE << <<Head(columns), Head(columns), how>> >>
            \o _build_same_name_aggs(Tail(columns), how)

\* agg_spec, as the list of its items <<output, source, how>>; a later item of
\* the same output name replaces an earlier one
AggSpec(cfg) ==
    << <<"n_sessions", cfg.session_col, "nunique">> >>
        \o _build_mean_aggs(cfg.numeric_means, "avg_")
        \o _build_mean_aggs(cfg.boolean_means, "p_")
        \o _build_same_name_aggs(cfg.max_cols, "max")
        \o _build_same_name_aggs(cfg.first_non_null, "first_non_null")

\* one aggregate of one group
Aggregate(frame, idx, col, how) ==
    IF how = "nunique" THEN Nunique(frame, idx, col)
    ELSE IF how = "mean" THEN Mean(frame, idx, col)
    ELSE IF how = "max" THEN MaxOf({frame.rows[i][col] : i \in idx} \ {NaN})
    ELSE FirstNonNull(frame, idx, col)

\* df.groupby(id_col): the default drops the rows whose id is null
CustomerGroups(frame, id_col) == GroupKeys(frame, id_col, TRUE)

build_customer_features(frame, cfg) ==
    LET agg_spec == AggSpec(cfg)
        names == {agg_spec[x][1] : x \in 1..Len(agg_spec)}
        Item(name) ==
            agg_spec[CHOOSE x \in 1..Len(agg_spec) :
                        /\ agg_spec[x][1] = name
                        /\ \A y \in 1..Len(agg_spec) : agg_spec[y][1] = name => y <= x]
    IN
    IF cfg.id_col \notin frame.columns THEN Raised("KeyError")
    ELSE IF \E x \in 1..Len(agg_spec) : agg_spec[x][2] \notin frame.columns
         THEN Raised("KeyError")
    ELSE
      LET keys == CustomerGroups(frame, cfg.id_col) IN
      Returned([columns |-> {cfg.id_col} \cup names,
                rows |-> [k \in 1..Len(keys) |->
                    [c \in {cfg.id_col} \cup names |->
                        IF c = cfg.id_col THEN keys[k]
                        ELSE Aggregate(frame, GroupRows(frame, cfg.id_col, keys[k]),
                                       Item(c)[2], Item(c)[3])]]])

(***************************************************************************)
(* Inputs of the feature builders.                                         *)
(***************************************************************************)
MaxFeatureRows == 2

FeatureColumns ==
    {"user_id", "session_id", "trip_id", "page_clicks", "flight_discount",
     "session_start", "gender"}

\* row i of a frame: its id, a numeric value (clicks, and whether a discount
\* was shown), whether its start time is known, and its gender
FeatureRow(columns, i, uid, value, timed, gender) ==
    [c \in columns |->
        IF c = "user_id" THEN uid
        ELSE IF c = "session_id" THEN i
        ELSE IF c = "trip_id" THEN (IF value = 1 THEN i ELSE NaN)
        ELSE IF c \in {"page_clicks", "flight_discount"} THEN value
        ELSE IF c = "session_start" THEN (IF timed THEN i - 1 ELSE NaN)
        ELSE gender]

\* every column present, or one of them absent
FeatureColumnSets == {FeatureColumns} \cup {FeatureColumns \ {c} : c \in FeatureColumns}

FeatureFrames ==
    {[columns |-> cols,
      rows |-> [i \in 1..Len(cells) |->
                  FeatureRow(cols, i, cells[i][1], cells[i][2], cells[i][3], cells[i][4])]] :
        cols \in FeatureColumnSets,
        cells \in UNION {[1..n -> (({NaN} \cup 1..MaxUserId) \X {NaN, 0, 1}
                                    \X BOOLEAN \X ({NaN} \cup 1..MaxCategory))] :
                            n \in 0..MaxFeatureRows}}

\* the features section of the pipeline configuration
FeatureConfigs ==
    {[id_col |-> "user_id", session_col |-> "session_id",
      numeric_means |-> nm, boolean_means |-> <<"flight_discount">>,
      first_non_null |-> fn, max_cols |-> mc] :
        nm \in {<<>>, <<"page_clicks">>},
        fn \in {<<>>, <<"gender">>},
        mc \in {<<>>, <<"trip_id">>}}

InitFeatures ==
    /\ df \in FeatureFrames
    /\ config = None
    /\ pc = "build_features"
    /\ ret = None
    /\ prev = None

BuildUserFeatures ==
    /\ pc = "build_features"
    /\ ret' = build_user_features(df)
    /\ pc' = IF ret'.raised = "none" THEN "built user features" ELSE "raised"
    /\ UNCHANGED <<df, config, prev>>

BuildCustomerFeatures ==
    /\ pc = "build_features"
    /\ \E cfg \in FeatureConfigs :
          /\ config' = cfg
          /\ ret' = build_customer_features(df, cfg)
    /\ pc' = IF ret'.raised = "none" THEN "built customer features" ELSE "raised"
    /\ UNCHANGED <<df, prev>>

NextFeatures == BuildUserFeatures \/ BuildCustomerFeatures

SpecFeatures == InitFeatures /\ [][NextFeatures]_vars

(***************************************************************************)
(* The features pipeline: run_features.  The table it writes is what the   *)
(* call returns here.                                                      *)
(***************************************************************************)
\* (a - b).dt.days: whole days of the difference, NaN when either side is NaT
DaysBetween(a, b) ==
    IF ToDatetime(a) = NaN \/ ToDatetime(b) = NaN THEN NaN
    ELSE (ToDatetime(a) - ToDatetime(b)) \div DayUnits

\* _apply_time_derivations: the three columns parsed, customer_tenure_days
\* added, and age_years (days / 365.25, kept as the day count) when a
\* birthdate column is configured
_apply_time_derivations(frame, time_cols) ==
    LET start == time_cols.session_start
        signup == time_cols.sign_up_date
        born == "birthdate" \in DOMAIN time_cols
        added == {"customer_tenure_days"} \cup (IF born THEN {"age_years"} ELSE {})
    IN [columns |-> frame.columns \cup added,
        rows |-> [i \in 1..Len(frame.rows) |->
            [c \in frame.columns \cup added |->
                IF c = "customer_tenure_days"
                THEN DaysBetween(frame.rows[i][start], frame.rows[i][signup])
                ELSE IF c = "age_years" /\ born
                THEN DaysBetween(frame.rows[i][start], frame.rows[i][time_cols.birthdate])
                ELSE IF c \in {start, signup} THEN ToDatetime(frame.rows[i][c])
                ELSE IF born /\ c = time_cols.birthdate THEN ToDatetime(frame.rows[i][c])
                ELSE frame.rows[i][c]]]]

\* the columns _apply_time_derivations reads
TimeColumns(time_cols) == {time_cols[k] : k \in DOMAIN time_cols}

\* max_cols when the configuration gives none
RECURSIVE DefaultMaxCols(_, _)
DefaultMaxCols(candidates, frame) ==
    IF candidates = <<>> THEN <<>>
    ELSE (IF Head(candidates) \in frame.columns THEN <<Head(candidates)>> ELSE <<>>)
         \o DefaultMaxCols(Tail(candidates), frame)

\* rename_map, before it is filtered
RenameMap ==
    << <<"p_cancellation", "p_cancellation_session">>,
       <<"p_flight_discount", "p_flight_discount_shown">>,
       <<"p_hotel_discount", "p_hotel_discount_shown">> >>

\* features.rename(columns=rename_map) for the entries whose source is a
\* column and whose destination is not
Rename(table) ==
    LET live == {x \in 1..Len(RenameMap) :
                    RenameMap[x][1] \in table.columns /\ RenameMap[x][2] \notin table.columns}
        New(c) == IF \E x \in live : RenameMap[x][1] = c
                  THEN RenameMap[CHOOSE x \in live : RenameMap[x][1] = c][2]
                  ELSE c
        Old(n) == CHOOSE c \in table.columns : New(c) = n
        cols == {New(c) : c \in table.columns}
    IN [columns |-> cols,
        rows |-> [k \in 1..Len(table.rows) |-> [n \in cols |-> table.rows[k][Old(n)]]]]

\* the columns build_customer_features_schema requires
SchemaColumns(cfg) ==
    {cfg.id_col, "n_sessions"}
        \cup {"avg_" \o cfg.numeric_means[x] : x \in 1..Len(cfg.numeric_means)}
        \cup {"p_" \o cfg.boolean_means[x] : x \in 1..Len(cfg.boolean_means)}
        \cup (IF cfg.has_max_cols
              THEN {cfg.max_cols[x] : x \in 1..Len(cfg.max_cols)}
              ELSE {"customer_tenure_days", "age_years"})
        \cup {cfg.first_non_null[x] : x \in 1..Len(cfg.first_non_null)}

\* schema.validate(features): every schema column present, the id and
\* n_sessions never null
SchemaValid(table, cfg) ==
    /\ SchemaColumns(cfg) \subseteq table.columns
    /\ \A k \in 1..Len(table.rows) :
          table.rows[k][cfg.id_col] # NaN /\ table.rows[k]["n_sessions"] # NaN

run_features(frame, cfg) ==
    IF cfg.has_time_cols /\ ~(TimeColumns(cfg.time_cols) \subseteq frame.columns)
    THEN Raised("KeyError")
    ELSE
      LET derived == IF cfg.has_time_cols
                     THEN _apply_time_derivations(frame, cfg.time_cols)
                     ELSE frame
          max_cols == IF cfg.has_max_cols THEN cfg.max_cols
                      ELSE DefaultMaxCols(<<"customer_tenure_days", "age_years">>, derived)
          built == build_customer_features(derived, [cfg EXCEPT !.max_cols = max_cols])
      IN IF built.raised # "none" THEN built
         ELSE LET features == Rename(built.out) IN
              IF cfg.validate_schema /\ ~SchemaValid(features, cfg)
              THEN Raised("SchemaError")
              ELSE Returned(features)

(***************************************************************************)
(* Inputs of the features pipeline.                                        *)
(***************************************************************************)
MaxPipelineRows == 2

PipelineColumns ==
    {"user_id", "session_id", "page_clicks", "flight_discount",
     "session_start", "sign_up_date", "birthdate"}

\* row i of the cleaned session table: its id, a numeric value, whether its
\* start time is known and whether the sign-up date is
PipelineRow(columns, i, uid, value, timed, signed) ==
    [c \in columns |->
        IF c = "user_id" THEN uid
        ELSE IF c = "session_id" THEN i
        ELSE IF c \in {"page_clicks", "flight_discount"} THEN value
        ELSE IF c = "session_start" THEN (IF timed THEN DayUnits + i ELSE NaN)
        ELSE IF c = "sign_up_date" THEN (IF signed THEN 0 ELSE NaN)
        ELSE 0]

PipelineColumnSets ==
    {PipelineColumns} \cup {PipelineColumns \ {c} : c \in {"page_clicks", "sign_up_date"}}

PipelineFrames ==
    {[columns |-> cols,
      rows |-> [i \in 1..Len(cells) |->
                  PipelineRow(cols, i, cells[i][1], cells[i][2], cells[i][3], cells[i][4])]] :
        cols \in PipelineColumnSets,
        cells \in UNION {[1..n -> (({NaN} \cup 1..MaxUserId) \X {NaN, 0, 1}
                                    \X BOOLEAN \X BOOLEAN)] :
                            n \in 0..MaxPipelineRows}}

\* cfg["features"]
PipelineConfigs ==
    {[id_col |-> "user_id", session_col |-> "session_id",
      numeric_means |-> nm, boolean_means |-> bm, first_non_null |-> <<>>,
      has_max_cols |-> hm, max_cols |-> <<>>,
      has_time_cols |-> tc # <<>>, time_cols |-> tc,
      validate_schema |-> vs] :
        nm \in {<<"page_clicks">>, <<"page_clicks", "customer_tenure_days">>},
        bm \in {<<>>, <<"flight_discount">>},
        hm \in BOOLEAN,
        vs \in BOOLEAN,
        tc \in {<<>>,
                [session_start |-> "session_start", sign_up_date |-> "sign_up_date"],
                [session_start |-> "session_start", sign_up_date |-> "sign_up_date",
                 birthdate |-> "birthdate"]}}

InitPipeline ==
    /\ df \in PipelineFrames
    /\ config = None
    /\ pc = "run_features"
    /\ ret = None
    /\ prev = None

RunFeatures ==
    /\ pc = "run_features"
    /\ \E cfg \in PipelineConfigs :
          /\ config' = cfg
          /\ ret' = run_features(df, cfg)
    /\ pc' = IF ret'.raised = "none" THEN "written" ELSE "raised"
    /\ UNCHANGED <<df, prev>>

NextPipeline == RunFeatures

SpecPipeline == InitPipeline /\ [][NextPipeline]_vars

(***************************************************************************)
(* Segmentation evaluation: run_k_sweep and run_seed_sweep.                *)
(*                                                                         *)
(* KMeans is a library: what it answers for a table is drawn from the      *)
(* labellings it can return (one label below k per sample, the same label  *)
(* for samples that are equal), and is the same whenever it is asked again *)
(* with the same k and random_state.  A float the code only passes on is   *)
(* "float", a None it writes is "None".                                    *)
(***************************************************************************)
\* _validate_features: "none", or the exception it raises
_validate_features(frame, features) ==
    IF \E x \in 1..Len(features) : features[x] \notin frame.columns THEN "KeyError"
    ELSE IF \E x \in 1..Len(features) : \E i \in 1..Len(frame.rows) :
                ToNumeric(frame.rows[i][features[x]]) = NaN
    THEN "ValueError"
    ELSE "none"

\* PCAConfig, and None: n_components is the integer n, or the float n / 2
NoPca == [kind |-> "none", n |-> 0]

\* _validate_evaluation_config
_validate_evaluation_config(cfg, n_features) ==
    IF cfg.features = <<>> THEN "ValueError"
    ELSE IF cfg.n_init < 1 THEN "ValueError"
    ELSE IF cfg.pca = NoPca THEN "none"
    ELSE IF cfg.pca.kind = "float"
    THEN IF ~(0 < cfg.pca.n /\ cfg.pca.n <= 2) THEN "ValueError" ELSE "none"
    ELSE IF cfg.pca.n < 1 THEN "ValueError"
    ELSE IF cfg.pca.n > n_features THEN "ValueError"
    ELSE "none"

\* StandardScaler().fit_transform refuses a table without rows or columns
ScalerRejects(n_samples, n_features) == n_samples = 0 \/ n_features = 0

\* PCA(n_components).fit_transform refuses an integer outside
\* 0..min(n_samples, n_features) and a float outside (0, 1)
PcaRejects(pca, n_samples, n_features) ==
    IF pca.kind = "float" THEN ~(0 < pca.n /\ pca.n < 2)
    ELSE pca.n < 0 \/ pca.n > n_samples \/ pca.n > n_features

\* _prepare_features: the exception raised, or the transformed table reduced
\* to what the sweeps read of it
_prepare_features(frame, cfg) ==
    IF _validate_features(frame, cfg.features) # "none"
    THEN [raised |-> _validate_features(frame, cfg.features), n_samples |-> 0]
    ELSE IF _validate_evaluation_config(cfg, Len(cfg.features)) # "none"
    THEN [raised |-> _validate_evaluation_config(cfg, Len(cfg.features)), n_samples |-> 0]
    ELSE IF ScalerRejects(Len(frame.rows), Len(cfg.features))
    THEN [raised |-> "ValueError", n_samples |-> 0]
    ELSE IF cfg.pca # NoPca /\ PcaRejects(cfg.pca, Len(frame.rows), Len(cfg.features))
    THEN [raised |-> "ValueError", n_samples |-> 0]
    ELSE [raised |-> "none", n_samples |-> Len(frame.rows)]

\* the labellings KMeans(n_clusters=k).fit_predict can return for the table
Labellings(frame, features, k) ==
    {l \in [1..Len(frame.rows) -> 0..(k - 1)] :
        \A i, j \in 1..Len(frame.rows) :
            (\A x \in 1..Len(features) :
                ToNumeric(frame.rows[i][features[x]]) = ToNumeric(frame.rows[j][features[x]]))
            => l[i] = l[j]}

\* compute_silhouette: "None", the score ("float"), or the ValueError that
\* silhouette_score raises unless 2 <= number of labels <= n_samples - 1
compute_silhouette(labels) ==
    IF Len(labels) < 2 THEN "None"
    ELSE IF Cardinality({labels[i] : i \in 1..Len(labels)}) < 2 THEN "None"
    ELSE IF Cardinality({labels[i] : i \in 1..Len(labels)}) > Len(labels) - 1
    THEN "ValueError"
    ELSE "float"

\* one row of a k sweep that tests k against n_samples before it tests k < 2
KSweepRowSamplesFirst(k, n_samples, fit) ==
    IF k >= n_samples
    THEN [k |-> k, inertia |-> "None", silhouette |-> "None",
          status |-> "invalid: k must be < n_samples"]
    ELSE IF k < 2
    THEN [k |-> k, inertia |-> "None", silhouette |-> "None",
          status |-> "invalid: k must be at least 2"]
    ELSE [k |-> k, inertia |-> "float", silhouette |-> compute_silhouette(fit[k]),
          status |-> IF compute_silhouette(fit[k]) # "None" THEN "ok"
                     ELSE "invalid: single cluster"]

\* one row of the k sweep; fit[k] is what KMeans answers for k
KSweepRow(k, n_samples, fit) ==
    IF k < 2
    THEN [k |-> k, inertia |-> "None", silhouette |-> "None",
          status |-> "invalid: k must be at least 2"]
    ELSE IF k >= n_samples
    THEN [k |-> k, inertia |-> "None", silhouette |-> "None",
          status |-> "invalid: k must be < n_samples"]
    ELSE [k |-> k, inertia |-> "float", silhouette |-> compute_silhouette(fit[k]),
          status |-> IF compute_silhouette(fit[k]) # "None" THEN "ok"
                     ELSE "invalid: single cluster"]

\* a k sweep that gives up at a candidate it cannot fit
run_k_sweep_strict(frame, cfg, k_values, fit) ==
    IF k_values = <<>> THEN Raised("ValueError")
    ELSE LET transformed == _prepare_features(frame, cfg) IN
         IF transformed.raised # "none" THEN Raised(transformed.raised)
         ELSE IF \E x \in 1..Len(k_values) :
                    k_values[x] < 2 \/ k_values[x] >= transformed.n_samples
         THEN Raised("ValueError")
         ELSE Returned([x \in 1..Len(k_values) |->
                           KSweepRow(k_values[x], transformed.n_samples, fit)])

run_k_sweep(frame, cfg, k_values, fit) ==
    IF k_values = <<>> THEN Raised("ValueError")
    ELSE LET transformed == _prepare_features(frame, cfg) IN
         IF transformed.raised # "none" THEN Raised(transformed.raised)
         ELSE Returned([x \in 1..Len(k_values) |->
                           KSweepRow(k_values[x], transformed.n_samples, fit)])

\* adjusted_rand_score over the pairs of samples: exactly 1.0 ("one") when no
\* pair is split by one labelling and joined by the other, else the ratio
\* 2 (tp tn - fn fp) / ((tp + fn)(fn + tn) + (tp + fp)(fp + tn))
adjusted_rand_score(labels_true, labels_pred) ==
    LET pairs == {p \in (1..Len(labels_true)) \X (1..Len(labels_true)) : p[1] # p[2]}
        Same(l, p) == l[p[1]] = l[p[2]]
        tp == Cardinality({p \in pairs : Same(labels_true, p) /\ Same(labels_pred, p)})
        tn == Cardinality({p \in pairs : ~Same(labels_true, p) /\ ~Same(labels_pred, p)})
        fn == Cardinality({p \in pairs : Same(labels_true, p) /\ ~Same(labels_pred, p)})
        fp == Cardinality({p \in pairs : ~Same(labels_true, p) /\ Same(labels_pred, p)})
    IN IF fn = 0 /\ fp = 0 THEN [one |-> TRUE, num |-> 1, den |-> 1]
       ELSE [one |-> FALSE, num |-> 2 * (tp * tn - fn * fp),
             den |-> (tp + fn) * (fn + tn) + (tp + fp) * (fp + tn)]

\* a seed loop that compares each seed with the seed before it
RECURSIVE SeedLoopPreceding(_, _, _)
SeedLoopPreceding(seed_list, fit, n) ==
    IF n = 0 THEN [results |-> <<>>, reference_labels |-> <<>>]
    ELSE LET st == SeedLoopPreceding(seed_list, fit, n - 1)
             seed == seed_list[n]
             labels == fit[seed]
             first == st.reference_labels = <<>>
         IN [results |->
                Append(st.results,
                       [seed |-> seed, inertia |-> "float",
                        silhouette |-> compute_silhouette(labels),
                        ari_to_reference |->
                            IF first THEN [one |-> TRUE, num |-> 1, den |-> 1]
                            ELSE adjusted_rand_score(st.reference_labels, labels)]),
             reference_labels |-> labels]

\* the loop of run_seed_sweep after the first n seeds: the rows so far and
\* reference_labels (<<>> while None); fit[seed] is what KMeans answers
RECURSIVE SeedLoop(_, _, _)
SeedLoop(seed_list, fit, n) ==
    IF n = 0 THEN [results |-> <<>>, reference_labels |-> <<>>]
    ELSE LET st == SeedLoop(seed_list, fit, n - 1)
             seed == seed_list[n]
             labels == fit[seed]
             first == st.reference_labels = <<>>
         IN [results |->
                Append(st.results,
                       [seed |-> seed, inertia |-> "float",
                        silhouette |-> compute_silhouette(labels),
                        ari_to_reference |->
                            IF first THEN [one |-> TRUE, num |-> 1, den |-> 1]
                            ELSE adjusted_rand_score(st.reference_labels, labels)]),
             reference_labels |-> IF first THEN labels ELSE st.reference_labels]

run_seed_sweep(frame, cfg, k, seeds, fit) ==
    IF seeds = <<>> THEN Raised("ValueError")
    ELSE IF k < 2 THEN Raised("ValueError")
    ELSE LET transformed == _prepare_features(frame, cfg) IN
         IF transformed.raised # "none" THEN Raised(transformed.raised)
         ELSE IF k >= transformed.n_samples THEN Raised("ValueError")
         ELSE Returned(SeedLoop(seeds, fit, Len(seeds)).results)

(***************************************************************************)
(* Inputs of the segmentation evaluation.  While a sweep runs, prev holds  *)
(* what KMeans answered: a labelling per k or per seed.                    *)
(***************************************************************************)
MaxSamples == 3

MaxK == 4

MaxCandidates == 3

MaxSeeds == 3

FeatureTables ==
    {[columns |-> {"user_id", "avg_page_clicks"},
      rows |-> [i \in 1..Len(v) |-> [user_id |-> i, avg_page_clicks |-> v[i]]]] :
        v \in UNION {[1..n -> {NaN, 0, 1}] : n \in 0..MaxSamples}}
    \cup {[columns |-> {"user_id"}, rows |-> [i \in 1..n |-> [user_id |-> i]]] :
            n \in 0..MaxSamples}

\* EvaluationConfig
EvaluationConfigs ==
    {[features |-> f, random_state |-> 42, n_init |-> ni, pca |-> p] :
        f \in {<<>>, <<"avg_page_clicks">>}, ni \in {0, 10},
        p \in {NoPca, [kind |-> "int", n |-> 1], [kind |-> "int", n |-> 2],
                [kind |-> "float", n |-> 1]}}

KLists == UNION {[1..n -> 0..MaxK] : n \in 0..MaxCandidates}

SeedValues == {7, 11}

SeedLists == UNION {[1..n -> SeedValues] : n \in 0..MaxSeeds}

\* the candidates run_k_sweep hands to KMeans
FittedKs(frame, cfg, k_values) ==
    IF _prepare_features(frame, cfg).raised # "none" THEN {}
    ELSE {k_values[x] : x \in {y \in 1..Len(k_values) :
                                  k_values[y] >= 2 /\ k_values[y] < Len(frame.rows)}}

\* the seeds run_seed_sweep hands to KMeans
FittedSeeds(frame, cfg, k, seeds) ==
    IF k < 2 \/ _prepare_features(frame, cfg).raised # "none" \/ k >= Len(frame.rows)
    THEN {}
    ELSE {seeds[x] : x \in 1..Len(seeds)}

InitEvaluation ==
    /\ df \in FeatureTables
    /\ config = None
    /\ pc = "evaluate"
    /\ ret = None
    /\ prev = None

RunKSweep ==
    /\ pc = "evaluate"
    /\ \E cfg \in EvaluationConfigs, k_values \in KLists :
          \E fit \in UNION {[FittedKs(df, cfg, k_values) -> Labellings(df, cfg.features, k)] :
                              k \in 2..MaxK} :
             /\ \A k \in DOMAIN fit : fit[k] \in Labellings(df, cfg.features, k)
             /\ config' = [evaluation |-> cfg, k_values |-> k_values]
             /\ prev' = fit
             /\ ret' = run_k_sweep(df, cfg, k_values, fit)
    /\ pc' = IF ret'.raised = "none" THEN "k swept" ELSE "k sweep raised"
    /\ UNCHANGED df

RunSeedSweep ==
    /\ pc = "evaluate"
    /\ \E cfg \in EvaluationConfigs, k \in 1..MaxK, seeds \in SeedLists :
          \E fit \in [FittedSeeds(df, cfg, k, seeds) -> Labellings(df, cfg.features, k)] :
             /\ config' = [evaluation |-> cfg, k |-> k, seeds |-> seeds]
             /\ prev' = fit
             /\ ret' = run_seed_sweep(df, cfg, k, seeds, fit)
    /\ pc' = IF ret'.raised = "none" THEN "seeds swept" ELSE "seed sweep raised"
    /\ UNCHANGED df

NextEvaluation == RunKSweep \/ RunSeedSweep

SpecEvaluation == InitEvaluation /\ [][NextEvaluation]_vars

(***************************************************************************)
(* The segmentation pipeline: run_segmentation.                            *)
(***************************************************************************)
\* id_column=None
NoColumn == "<None>"

\* KMeans(n_clusters, n_init).fit_predict refuses fewer than one cluster or
\* initialisation, more clusters than samples, and a table without columns
KMeansRejects(n_clusters, n_init, n_samples, n_columns) ==
    n_clusters < 1 \/ n_init < 1 \/ n_clusters > n_samples \/ n_columns = 0

\* the number of columns of transformed_df
TransformedColumns(cfg) ==
    IF cfg.pca = NoPca THEN Len(cfg.features)
    ELSE IF cfg.pca.kind = "int" THEN cfg.pca.n
    ELSE Len(cfg.features)

\* where run_segmentation stops: the step that raises, or "returned"
SegmentationStage(frame, cfg, id_column) ==
    IF _validate_features(frame, cfg.features) # "none" THEN "_validate_features"
    ELSE IF ScalerRejects(Len(frame.rows), Len(cfg.features)) THEN "StandardScaler"
    ELSE IF cfg.pca # NoPca /\ PcaRejects(cfg.pca, Len(frame.rows), Len(cfg.features))
    THEN "PCA"
    ELSE IF KMeansRejects(cfg.n_clusters, cfg.n_init, Len(frame.rows),
                          TransformedColumns(cfg))
    THEN "KMeans"
    ELSE IF id_column # NoColumn /\ id_column \notin frame.columns THEN "id_column"
    ELSE "returned"

\* an assignments table whose ids are taken in reverse row order
AssignmentsReversed(frame, id_column, labels) ==
    IF id_column = NoColumn
    THEN [columns |-> {"segment"},
          rows |-> [i \in 1..Len(frame.rows) |-> [segment |-> labels[i]]]]
    ELSE [columns |-> {id_column, "segment"},
          rows |-> [i \in 1..Len(frame.rows) |->
                       (id_column :> frame.rows[Len(frame.rows) + 1 - i][id_column]) @@
                       [segment |-> labels[i]]]]

\* the assignments table; labels is what KMeans answered
Assignments(frame, id_column, labels) ==
    IF id_column = NoColumn
    THEN [columns |-> {"segment"},
          rows |-> [i \in 1..Len(frame.rows) |-> [segment |-> labels[i]]]]
    ELSE [columns |-> {id_column, "segment"},
          rows |-> [i \in 1..Len(frame.rows) |->
                       (id_column :> frame.rows[i][id_column]) @@
                       [segment |-> labels[i]]]]

run_segmentation(frame, cfg, id_column, labels) ==
    LET stage == SegmentationStage(frame, cfg, id_column) IN
    IF stage = "_validate_features"
    THEN Raised(_validate_features(frame, cfg.features))
    ELSE IF stage \in {"StandardScaler", "PCA", "KMeans"} THEN Raised("ValueError")
    ELSE IF stage = "id_column" THEN Raised("KeyError")
    ELSE Returned(Assignments(frame, id_column, labels))

SegmentationTables ==
    {[columns |-> {"user_id", "avg_page_clicks"},
      rows |-> [i \in 1..Len(v) |-> [user_id |-> v[i][1], avg_page_clicks |-> v[i][2]]]] :
        v \in UNION {[1..n -> {1, 2} \X {NaN, 0, 1}] : n \in 0..MaxSamples}}
    \cup {[columns |-> {"user_id"}, rows |-> [i \in 1..n |-> [user_id |-> i]]] :
            n \in 0..MaxSamples}

PcaSettings ==
    {NoPca} \cup {[kind |-> "int", n |-> n] : n \in 0..2}
            \cup {[kind |-> "float", n |-> n] : n \in 0..3}

\* SegmentationConfig
SegmentationConfigs ==
    {[features |-> f, n_clusters |-> k, random_state |-> 42, n_init |-> ni, pca |-> p] :
        f \in {<<>>, <<"avg_page_clicks">>}, k \in 0..MaxSamples, ni \in {0, 10},
        p \in PcaSettings}

InitSegmentation ==
    /\ df \in SegmentationTables
    /\ config = None
    /\ pc = "run_segmentation"
    /\ ret = None
    /\ prev = None

\* prev holds what KMeans answered, <<>> when it was not reached or refused
RunSegmentation ==
    /\ pc = "run_segmentation"
    /\ \E cfg \in SegmentationConfigs, id_column \in {"user_id", "customer_id", NoColumn} :
          \E labels \in IF SegmentationStage(df, cfg, id_column) \in {"id_column", "returned"}
                        THEN Labellings(df, cfg.features, cfg.n_clusters)
                        ELSE {<<>>} :
             /\ config' = [segmentation |-> cfg, id_column |-> id_column]
             /\ prev' = labels
             /\ ret' = run_segmentation(df, cfg, id_column, labels)
    /\ pc' = IF ret'.raised = "none" THEN "segmented" ELSE "segmentation raised"
    /\ UNCHANGED df

NextSegmentation == RunSegmentation

SpecSegmentation == InitSegmentation /\ [][NextSegmentation]_vars

(***************************************************************************)
(* compare_algorithms: K-Means against DBSCAN.                             *)
(***************************************************************************)
_summarize_labels(labels) ==
    LET label_set == {labels[i] : i \in 1..Len(labels)} IN
    [n_clusters |-> Cardinality(label_set) - (IF -1 \in label_set THEN 1 ELSE 0),
     noise_count |-> Cardinality({i \in 1..Len(labels) : labels[i] = -1}),
     n_samples |-> Len(labels)]

\* the labellings DBSCAN(min_samples).fit_predict can return: -1 is noise,
\* clusters are numbered from 0 in the order their first sample appears,
\* equal samples get one label, and a cluster has a core sample, so at least
\* min_samples members
DbscanLabellings(frame, features, min_samples) ==
    {l \in [1..Len(frame.rows) -> -1..(Len(frame.rows) - 1)] :
        /\ \A i, j \in 1..Len(frame.rows) :
              (\A x \in 1..Len(features) :
                  ToNumeric(frame.rows[i][features[x]]) = ToNumeric(frame.rows[j][features[x]]))
              => l[i] = l[j]
        /\ \A i \in 1..Len(frame.rows) :
              l[i] >= 0 =>
                /\ Cardinality({j \in 1..Len(frame.rows) : l[j] = l[i]}) >= min_samples
                /\ \A c \in 0..(l[i] - 1) : \E j \in 1..(i - 1) : l[j] = c}

\* the samples DBSCAN did not label as noise
NonNoise(labels) == SelectSeq(labels, LAMBDA label : label # -1)

\* the DBSCAN silhouette of compare_algorithms
DbscanSilhouette(labels) ==
    IF _summarize_labels(labels).n_clusters >= 2 /\ Len(NonNoise(labels)) >= 2
    THEN compute_silhouette(NonNoise(labels))
    ELSE "None"

\* compare_algorithms; kmeans_labels and dbscan_labels are what the two
\* fits answer
compare_algorithms(frame, cfg, kmeans_k, kmeans_labels, dbscan_labels) ==
    IF kmeans_k < 2 THEN Raised("ValueError")
    ELSE IF _prepare_features(frame, cfg).raised # "none"
    THEN Raised(_prepare_features(frame, cfg).raised)
    ELSE IF KMeansRejects(kmeans_k, cfg.n_init, Len(frame.rows), TransformedColumns(cfg))
    THEN Raised("ValueError")
    ELSE IF compute_silhouette(kmeans_labels) = "ValueError" THEN Raised("ValueError")
    ELSE IF DbscanSilhouette(dbscan_labels) = "ValueError" THEN Raised("ValueError")
    ELSE Returned(<<[algorithm |-> "kmeans",
                     n_clusters |-> _summarize_labels(kmeans_labels).n_clusters,
                     noise_count |-> 0,
                     silhouette |-> compute_silhouette(kmeans_labels),
                     inertia |-> "float"],
                    [algorithm |-> "dbscan",
                     n_clusters |-> _summarize_labels(dbscan_labels).n_clusters,
                     noise_count |-> _summarize_labels(dbscan_labels).noise_count,
                     silhouette |-> DbscanSilhouette(dbscan_labels),
                     inertia |-> "None"]>>)

\* K-Means is fitted
KMeansFitted(frame, cfg, kmeans_k) ==
    /\ kmeans_k >= 2
    /\ _prepare_features(frame, cfg).raised = "none"
    /\ ~KMeansRejects(kmeans_k, cfg.n_init, Len(frame.rows), TransformedColumns(cfg))

\* DBSCANConfig.min_samples
MinSamples == {1, 2, 5}

InitCompare ==
    /\ df \in FeatureTables
    /\ config = None
    /\ pc = "compare_algorithms"
    /\ ret = None
    /\ prev = None

\* prev holds what the two fits answered, <<>> for a fit that was not reached
CompareAlgorithms ==
    /\ pc = "compare_algorithms"
    /\ \E cfg \in EvaluationConfigs, kmeans_k \in 1..MaxK, min_samples \in MinSamples :
          \E kmeans_labels \in IF KMeansFitted(df, cfg, kmeans_k)
                                THEN Labellings(df, cfg.features, kmeans_k) ELSE {<<>>} :
             \E dbscan_labels \in
                    IF /\ KMeansFitted(df, cfg, kmeans_k)
                       /\ compute_silhouette(kmeans_labels) # "ValueError"
                    THEN DbscanLabellings(df, cfg.features, min_samples) ELSE {<<>>} :
                /\ config' = [evaluation |-> cfg, kmeans_k |-> kmeans_k,
                              min_samples |-> min_samples]
                /\ prev' = [kmeans |-> kmeans_labels, dbscan |-> dbscan_labels]
                /\ ret' = compare_algorithms(df, cfg, kmeans_k, kmeans_labels, dbscan_labels)
    /\ pc' = IF ret'.raised = "none" THEN "compared" ELSE "comparison raised"
    /\ UNCHANGED df

NextCompare == CompareAlgorithms

SpecCompare == InitCompare /\ [][NextCompare]_vars

(***************************************************************************)
(* Perk mapping: load_mapping and map_perks.                               *)
(*                                                                         *)
(* The YAML mapping is the sequence of its entries in file order; a key    *)
(* is the integer it converts to and the form it is written in (the YAML   *)
(* integer 1 and the YAML string "1" are two keys of one mapping).         *)
(***************************************************************************)
\* load_mapping: one row per entry, segment = int(key)
load_mapping(cfg) ==
    [x \in 1..Len(cfg) |->
        [segment |-> cfg[x].key.value, persona_name |-> cfg[x].persona_name,
         primary_perk |-> cfg[x].primary_perk]]

\* the rows a left merge on segment makes of one assignment row
MergeRow(row, mapping) ==
    LET matches == SelectSeq(mapping, LAMBDA m : m.segment = row.segment) IN
    IF matches = <<>>
    THEN <<[user_id |-> row.user_id, segment |-> row.segment,
            persona_name |-> NaN, primary_perk |-> NaN]>>
    ELSE [x \in 1..Len(matches) |->
             [user_id |-> row.user_id, segment |-> row.segment,
              persona_name |-> matches[x].persona_name,
              primary_perk |-> matches[x].primary_perk]]

RECURSIVE LeftMerge(_, _, _)
LeftMerge(assignments, mapping, n) ==
    IF n = 0 THEN <<>>
    ELSE LeftMerge(assignments, mapping, n - 1) \o MergeRow(assignments[n], mapping)

\* map_perks; a mapping without entries loads as a frame without columns
map_perks(assignments, cfg) ==
    IF cfg = <<>> THEN Raised("KeyError")
    ELSE Returned([columns |-> <<"user_id", "segment", "persona_name", "primary_perk">>,
                   rows |-> LeftMerge(assignments.rows, load_mapping(cfg),
                                      Len(assignments.rows))])

MaxAssignments == 2

MaxSegment == 2

MaxEntries == 3

MaxPersona == 2

AssignmentTables ==
    {[columns |-> {"user_id", "segment"}, rows |-> r] :
        r \in UNION {[1..n -> [user_id : 1..2, segment : 0..MaxSegment]] :
                        n \in 0..MaxAssignments}}

MappingKeys == [form : {"int", "str"}, value : 0..(MaxSegment - 1)]

\* the mappings a YAML file can hold: no key twice
PerkMappings ==
    {m \in UNION {[1..n -> [key : MappingKeys, persona_name : 1..MaxPersona,
                            primary_perk : 1..MaxPersona]] : n \in 0..MaxEntries} :
        \A x, y \in 1..Len(m) : x # y => m[x].key # m[y].key}

InitPerks ==
    /\ df \in AssignmentTables
    /\ config = None
    /\ pc = "map_perks"
    /\ ret = None
    /\ prev = None

MapPerks ==
    /\ pc = "map_perks"
    /\ \E cfg \in PerkMappings :
          /\ config' = cfg
          /\ ret' = map_perks(df, cfg)
    /\ pc' = IF ret'.raised = "none" THEN "mapped" ELSE "mapping raised"
    /\ UNCHANGED <<df, prev>>

NextPerks == MapPerks

SpecPerks == InitPerks /\ [][NextPerks]_vars

(***************************************************************************)
(* The `run` command: main, cmd_run and run_end_to_end.                    *)
(*                                                                         *)
(* config is the invocation: through the command line (entry "cli") or a   *)
(* direct call of run_end_to_end with all its parameters (entry "call").   *)
(* df holds what the run has done so far: the stages completed, in order,  *)
(* and the random_state of every K-Means fit.  A stage can fail on its     *)
(* files or its data; ret is the exception and the process's return code.  *)
(***************************************************************************)
\* run --seed default
DefaultSeed == 42

\* EvaluationConfig.random_state and SegmentationConfig.random_state defaults
DefaultRandomState == 42

\* the parameters of run_end_to_end: keyword-only, none has a default
RunEndToEndParameters ==
    {"mode", "seed", "run_id", "outdir", "eda_config", "features_config",
     "segmentation_config", "perks_config"}

\* the keywords cmd_run passes to run_end_to_end
CmdRunKeywords ==
    {"mode", "seed", "run_id", "eda_config", "features_config",
     "segmentation_config", "perks_config"}

\* the K-Means fits of run_segmentation_job; both configurations are built
\* without random_state, the seed sweep takes its seeds from the YAML file
SegmentationJobFits(seed_sweep) ==
    <<[fit |-> "run_k_sweep", random_state |-> DefaultRandomState]>>
    \o [x \in 1..Len(seed_sweep) |-> [fit |-> "run_seed_sweep", random_state |-> seed_sweep[x]]]
    \o <<[fit |-> "compare_algorithms", random_state |-> DefaultRandomState],
         [fit |-> "run_segmentation", random_state |-> DefaultRandomState]>>

Invocations ==
    [entry : {"cli"}, command : {"run", "info", "help"}, mode : {"sample", "full"},
     seed : {DefaultSeed, 7}, seed_sweep : {<<7, 11>>, <<42>>}]
    \cup [entry : {"call"}, command : {"run"}, mode : {"sample", "full"},
          seed : {DefaultSeed, 7}, seed_sweep : {<<7, 11>>, <<42>>}]

NothingDone == [stages |-> <<>>, fits |-> <<>>]

InitRun ==
    /\ config \in Invocations
    /\ df = NothingDone
    /\ pc = IF config.entry = "cli" THEN "main" ELSE "run_end_to_end"
    /\ ret = None
    /\ prev = None

\* an exception leaves main uncaught (return code 1) or reaches the caller
Fail(exc) ==
    /\ ret' = [raised |-> exc, out |-> IF config.entry = "cli" THEN 1 ELSE None]
    /\ pc' = IF config.entry = "cli" THEN "exited" ELSE "raised"

Main ==
    /\ pc = "main"
    /\ IF config.command = "run"
       THEN pc' = "cmd_run" /\ UNCHANGED ret
       ELSE pc' = "exited" /\ ret' = Returned(0)
    /\ UNCHANGED <<df, config, prev>>

\* cmd_run: the call binds only when every required parameter is passed
CmdRun ==
    /\ pc = "cmd_run"
    /\ IF RunEndToEndParameters \subseteq CmdRunKeywords
       THEN pc' = "run_end_to_end" /\ UNCHANGED ret
       ELSE Fail("TypeError")
    /\ UNCHANGED <<df, config, prev>>

\* one stage of run_end_to_end: it completes, or raises on its inputs
Stage(at, name, fits, next) ==
    /\ pc = at
    /\ \/ /\ df' = [stages |-> Append(df.stages, name), fits |-> df.fits \o fits]
          /\ pc' = next
          /\ UNCHANGED ret
       \/ /\ Fail("stage error")
          /\ UNCHANGED df
    /\ UNCHANGED <<config, prev>>

StepEda == Stage("run_end_to_end", "eda", <<>>, "run_features")

StepFeatures == Stage("run_features", "features", <<>>, "run_segmentation_job")

StepSegmentation ==
    Stage("run_segmentation_job", "segmentation",
          SegmentationJobFits(config.seed_sweep), "write_customer_perks")

StepPerks == Stage("write_customer_perks", "perks", <<>>, "run_metadata")

\* the metadata file is written and run_end_to_end returns; cmd_run returns 0
WriteRunMetadata ==
    /\ pc = "run_metadata"
    /\ pc' = IF config.entry = "cli" THEN "exited" ELSE "returned"
    /\ ret' = Returned(IF config.entry = "cli" THEN 0 ELSE [seed |-> config.seed])
    /\ UNCHANGED <<df, config, prev>>

NextRun ==
    \/ Main
    \/ CmdRun
    \/ StepEda
    \/ StepFeatures
    \/ StepSegmentation
    \/ StepPerks
    \/ WriteRunMetadata

SpecRun == InitRun /\ [][NextRun]_vars

(***************************************************************************)
(* The EDA pipeline: run_eda.                                              *)
(*                                                                         *)
(* A frame is the expression that produced it: <<"raw_full">>, or          *)
(* <<function, argument frame>>.  df holds run_eda's local frames and the  *)
(* calls made so far, prev the artifact directory: the files written and   *)
(* what `latest` points to.  config names the report format and the step,  *)
(* if any, that fails on its inputs (files, database, data).               *)
(***************************************************************************)
EdaSteps ==
    <<"load_config", "extract", "apply_validity_rules full", "remove_outliers full",
      "apply_validity_rules cohort", "remove_outliers cohort",
      "aggregate_user_level full", "aggregate_user_level cohort", "summaries",
      "persist data", "persist tables", "build_metadata">>

StepAfter(step) ==
    LET x == CHOOSE y \in 1..Len(EdaSteps) : EdaSteps[y] = step
    IN IF x = Len(EdaSteps) THEN "returned" ELSE EdaSteps[x + 1]

\* the parameters of build_metadata, and those of them without a default
BuildMetadataParameters ==
    {"config", "row_counts", "n_rows_raw", "n_rows_after_validity", "n_rows_clean",
     "validity_rules", "outlier_rules", "invalid_hotel_nights_meta", "validation_checks"}

BuildMetadataRequired == BuildMetadataParameters \ {"validation_checks"}

\* the keywords run_eda passes to build_metadata
RunEdaMetadataKeywords ==
    {"config", "row_counts", "n_rows_raw", "n_rows_raw_full", "n_rows_after_validity",
     "n_rows_clean", "validity_rules", "outlier_rules", "invalid_hotel_nights_meta",
     "validation_checks"}

\* a call binds when it passes every required parameter and no unknown one
Binds(keywords, parameters, required) ==
    keywords \subseteq parameters /\ required \subseteq keywords

DataArtifacts == {"sessions_clean.parquet", "users_agg.parquet"}

TableArtifacts ==
    {"cleaned/flights", "cleaned/hotels", "cleaned/sessions", "cleaned/users",
     "transformed/flights", "transformed/hotels", "transformed/sessions",
     "transformed/users"}

MetadataArtifacts == {"metadata.yaml", "metadata.json"}

EdaRuns ==
    [output_format : {"html", "pdf"},
     fails : {"none"} \cup {EdaSteps[x] : x \in 1..Len(EdaSteps)} \cup {"render", "latest"},
     latest : {"absent", "previous run"}]

InitEda ==
    /\ config \in EdaRuns
    /\ df = [frames |-> [raw_full |-> <<>>, raw |-> <<>>, full_df_valid |-> <<>>,
                         full_df_clean |-> <<>>, cohort_df_valid |-> <<>>,
                         cohort_df_clean |-> <<>>, user |-> <<>>, cohort_user |-> <<>>],
             calls |-> <<>>]
    /\ pc = "load_config"
    /\ ret = None
    /\ prev = [written |-> {}, latest |-> config.latest]

EdaRaise(exc) ==
    /\ pc' = "raised"
    /\ ret' = Raised(exc)

\* the step at pc fails on its inputs
EdaFails(step) == pc = step /\ config.fails = step

\* load_config, load_workflow and the run directory
EdaSetup ==
    /\ pc = "load_config"
    /\ IF EdaFails("load_config") THEN EdaRaise("input error")
       ELSE pc' = StepAfter(pc) /\ UNCHANGED ret
    /\ UNCHANGED <<df, config, prev>>

\* extraction, cohort filter and raw schema validation
EdaExtract ==
    /\ pc = "extract"
    /\ IF EdaFails("extract") THEN EdaRaise("input error") /\ UNCHANGED df
       ELSE /\ df' = [df EXCEPT !.frames.raw_full = <<"raw_full">>,
                                !.frames.raw = <<"filter_session_level", <<"raw_full">>>>]
            /\ pc' = StepAfter(pc)
            /\ UNCHANGED ret
    /\ UNCHANGED <<config, prev>>

\* one call fn(arg) whose result, after `then`, is assigned to the local `to`
EdaCall(step, fn, arg, then(_), to) ==
    /\ pc = step
    /\ IF EdaFails(step) THEN EdaRaise("input error") /\ UNCHANGED df
       ELSE /\ df' = [frames |-> [df.frames EXCEPT ![to] = then(<<fn, arg>>)],
                      calls |-> Append(df.calls, [fn |-> fn, arg |-> arg, out |-> <<fn, arg>>])]
            /\ pc' = StepAfter(pc)
            /\ UNCHANGED ret
    /\ UNCHANGED <<config, prev>>

Unchecked(frame) == frame

\* SESSION_CLEAN_SCHEMA.validate(frame, lazy=True): coerce=True, a new frame
SessionCleanValidate(frame) == <<"SESSION_CLEAN_SCHEMA.validate", frame>>

\* USER_AGGREGATE_SCHEMA.validate(frame, lazy=True)
UserAggregateValidate(frame) == <<"USER_AGGREGATE_SCHEMA.validate", frame>>

EdaValidityFull ==
    EdaCall("apply_validity_rules full", "apply_validity_rules",
            <<"add_derived_columns", df.frames.raw_full>>, Unchecked, "full_df_valid")

EdaOutliersFull ==
    EdaCall("remove_outliers full", "remove_outliers", df.frames.full_df_valid,
            SessionCleanValidate, "full_df_clean")

EdaValidityCohort ==
    EdaCall("apply_validity_rules cohort", "apply_validity_rules",
            <<"add_derived_columns", df.frames.raw>>, Unchecked, "cohort_df_valid")

EdaOutliersCohort ==
    EdaCall("remove_outliers cohort", "remove_outliers", df.frames.cohort_df_valid,
            SessionCleanValidate, "cohort_df_clean")

EdaAggregateFull ==
    EdaCall("aggregate_user_level full", "aggregate_user_level", df.frames.full_df_clean,
            UserAggregateValidate, "user")

EdaAggregateCohort ==
    EdaCall("aggregate_user_level cohort", "aggregate_user_level",
            df.frames.cohort_df_clean, UserAggregateValidate, "cohort_user")

\* summaries, charts, experiments and workflow annotation: they read the
\* full frames and write no data or metadata artifact
EdaSummaries ==
    /\ pc = "summaries"
    /\ IF EdaFails("summaries") THEN EdaRaise("input error")
       ELSE pc' = StepAfter(pc) /\ UNCHANGED ret
    /\ UNCHANGED <<df, config, prev>>

\* a step that writes files one after the other: a failure leaves the files
\* written before it
EdaPersist(step, files) ==
    /\ pc = step
    /\ IF EdaFails(step)
       THEN /\ EdaRaise("input error")
            /\ \E done \in SUBSET files :
                  /\ done # files
                  /\ prev' = [prev EXCEPT !.written = @ \cup done]
       ELSE /\ prev' = [prev EXCEPT !.written = @ \cup files]
            /\ pc' = StepAfter(pc)
            /\ UNCHANGED ret
    /\ UNCHANGED <<df, config>>

EdaPersistData == EdaPersist("persist data", DataArtifacts)

EdaPersistTables == EdaPersist("persist tables", TableArtifacts)

\* what follows a build_metadata call that returns: the metadata files, the
\* report format test, the report and the `latest` pointer
EdaFinish(fs, cfg) ==
    LET with_meta == [fs EXCEPT !.written = @ \cup MetadataArtifacts] IN
    IF cfg.output_format # "html"
    THEN [ret |-> Raised("ValueError"), fs |-> with_meta]
    ELSE IF cfg.fails = "render"
    THEN [ret |-> Raised("input error"), fs |-> with_meta]
    ELSE IF cfg.fails = "latest"
    THEN [ret |-> Raised("input error"),
          fs |-> [with_meta EXCEPT !.written = @ \cup {"eda_report.html"},
                                   !.latest = "absent"]]
    ELSE [ret |-> Returned("run_dir"),
          fs |-> [with_meta EXCEPT !.written = @ \cup {"eda_report.html"},
                                   !.latest = "this run"]]

\* the metadata stage and everything after it
EdaMetadata ==
    /\ pc = "build_metadata"
    /\ IF ~Binds(RunEdaMetadataKeywords, BuildMetadataParameters, BuildMetadataRequired)
       THEN EdaRaise("TypeError") /\ UNCHANGED prev
       ELSE /\ ret' = EdaFinish(prev, config).ret
            /\ prev' = EdaFinish(prev, config).fs
            /\ pc' = IF ret'.raised = "none" THEN "returned" ELSE "raised"
    /\ UNCHANGED <<df, config>>

NextEda ==
    \/ EdaSetup
    \/ EdaExtract
    \/ EdaValidityFull
    \/ EdaOutliersFull
    \/ EdaValidityCohort
    \/ EdaOutliersCohort
    \/ EdaAggregateFull
    \/ EdaAggregateCohort
    \/ EdaSummaries
    \/ EdaPersistData
    \/ EdaPersistTables
    \/ EdaMetadata

SpecEda == InitEda /\ [][NextEda]_vars

(***************************************************************************)
(* The caller's frame.                                                     *)
(*                                                                         *)
(* A DataFrame is a mutable object.  A function either works on a copy of  *)
(* the frame it is given or on that frame itself, and what it assigns into *)
(* its working frame stays there when it returns or raises.  df is the     *)
(* caller's frame, prev what it held before the first call.                *)
(***************************************************************************)
\* every function works on the frame it is given
WorksOnInput(fn) == "input"

\* the object the function's statements act on: `out = df.copy()`, or df
WorksOn(fn) ==
    IF fn \in {"fix_invalid_hotel_nights", "apply_validity_rules", "remove_outliers",
               "build_user_features"}
    THEN "copy"
    ELSE "input"

\* the frame with column col replaced by pd.to_datetime(..., errors="coerce")
Parsed(frame, col) ==
    [frame EXCEPT !.rows = [i \in 1..Len(frame.rows) |->
                               [frame.rows[i] EXCEPT ![col] = ToDatetime(@)]]]

\* the working frame of fix_invalid_hotel_nights when it returns or raises
WrittenByFix(frame, policy) ==
    IF "nights" \notin frame.columns \/ policy # "recompute" THEN frame
    ELSE IF "check_in_time" \notin frame.columns THEN frame
    ELSE IF "check_out_time" \notin frame.columns THEN Parsed(frame, "check_in_time")
    ELSE fix_invalid_hotel_nights(frame, policy).out

\* the working frame of build_user_features when it returns or raises
WrittenByUserFeatures(frame) ==
    IF "user_id" \notin frame.columns \/ "session_start" \notin frame.columns THEN frame
    ELSE Parsed(frame, "session_start")

\* the caller's frame after a call of fn that left `written` in its working
\* frame
CallerFrame(fn, frame, written) ==
    IF WorksOn(fn) = "copy" THEN frame ELSE written

MaxCallerRows == 1

CallerFrames ==
    [family : {"validity"}, frame : {f \in ValidityFrames : Len(f.rows) <= MaxCallerRows}]
    \cup [family : {"outliers"}, frame : {f \in OutlierFrames : Len(f.rows) <= MaxCallerRows}]
    \cup [family : {"sessions"}, frame : {f \in SessionFrames : Len(f.rows) <= MaxCallerRows}]
    \cup [family : {"features"}, frame : {f \in FeatureFrames : Len(f.rows) <= MaxCallerRows}]
    \cup [family : {"segmentation"},
          frame : {f \in SegmentationTables : Len(f.rows) <= MaxCallerRows}]

InitCaller ==
    /\ \E c \in CallerFrames : df = c.frame /\ pc = c.family
    /\ config = None
    /\ ret = None
    /\ prev = df

CallFixInvalidHotelNights ==
    /\ pc = "validity"
    /\ \E cfg \in ValidityConfigs :
          /\ config' = [fn |-> "fix_invalid_hotel_nights", cfg |-> cfg]
          /\ ret' = fix_invalid_hotel_nights(df, cfg.invalid_hotel_nights_policy)
          /\ df' = CallerFrame("fix_invalid_hotel_nights", df,
                               WrittenByFix(df, cfg.invalid_hotel_nights_policy))
    /\ UNCHANGED <<pc, prev>>

\* apply_validity_rules hands its working frame on to fix_invalid_hotel_nights
\* unless the policy is drop
CallApplyValidityRules ==
    /\ pc = "validity"
    /\ \E cfg \in ValidityConfigs :
          /\ config' = [fn |-> "apply_validity_rules", cfg |-> cfg]
          /\ ret' = apply_validity_rules(df, cfg)
          /\ df' = CallerFrame("apply_validity_rules", df,
                      IF "nights" \in df.columns /\ cfg.invalid_hotel_nights_policy # "drop"
                      THEN CallerFrame("fix_invalid_hotel_nights", df,
                                       WrittenByFix(df, cfg.invalid_hotel_nights_policy))
                      ELSE df)
    /\ UNCHANGED <<pc, prev>>

CallRemoveOutliers ==
    /\ pc = "outliers"
    /\ \E cfg \in OutlierConfigs :
          /\ config' = [fn |-> "remove_outliers", cfg |-> cfg]
          /\ ret' = remove_outliers(df, cfg)
    /\ df' = CallerFrame("remove_outliers", df, df)
    /\ UNCHANGED <<pc, prev>>

CallAggregateUserLevel ==
    /\ pc = "sessions"
    /\ config' = [fn |-> "aggregate_user_level"]
    /\ ret' = aggregate_user_level(df)
    /\ df' = CallerFrame("aggregate_user_level", df, df)
    /\ UNCHANGED <<pc, prev>>

CallBuildUserFeatures ==
    /\ pc = "features"
    /\ config' = [fn |-> "build_user_features"]
    /\ ret' = build_user_features(df)
    /\ df' = CallerFrame("build_user_features", df, WrittenByUserFeatures(df))
    /\ UNCHANGED <<pc, prev>>

CallRunSegmentation ==
    /\ pc = "segmentation"
    /\ \E cfg \in SegmentationConfigs, id_column \in {"user_id", "customer_id", NoColumn} :
          \E labels \in IF SegmentationStage(df, cfg, id_column) \in {"id_column", "returned"}
                        THEN Labellings(df, cfg.features, cfg.n_clusters)
                        ELSE {<<>>} :
             /\ config' = [fn |-> "run_segmentation", cfg |-> cfg, id_column |-> id_column]
             /\ ret' = run_segmentation(df, cfg, id_column, labels)
    /\ df' = CallerFrame("run_segmentation", df, df)
    /\ UNCHANGED <<pc, prev>>

NextCaller ==
    \/ CallFixInvalidHotelNights
    \/ CallApplyValidityRules
    \/ CallRemoveOutliers
    \/ CallAggregateUserLevel
    \/ CallBuildUserFeatures
    \/ CallRunSegmentation

SpecCaller == InitCaller /\ [][NextCaller]_vars

(***************************************************************************)
(* Properties of the outlier engine.                                       *)
(***************************************************************************)
ConfiguredCols == PresentColumns(config.columns, df, 1)

\* mask_keep as the loop holds it after the first k present columns
MaskAfter(k) == OutlierLoop(df, config, ConfiguredCols, k).mask_keep

\* s with the rows outside mask blanked: the values of the rows still kept
MaskedSeries(s, mask) == [i \in DOMAIN s |-> IF i \in mask THEN s[i] ELSE NaN]

\* x is null or within [Q1 - m*IQR, Q3 + m*IQR] for the quartiles of s
WithinIqrBounds(x, s, multiplier) ==
    \/ x = NaN
    \/ LET q1 == Quantile4(s, 1)
           q3 == Quantile4(s, 3)
       IN /\ q1 # NaN
          /\ 2 * q1 - multiplier * (q3 - q1) <= 8 * x
          /\ 8 * x <= 2 * q3 + multiplier * (q3 - q1)

IqrDone == pc = "done" /\ config.method = "iqr"

\* C1 (as amended): with method 'iqr', every row of the returned frame has, for
\* each processed column c, a value that is null or within
\* [Q1 - m*IQR, Q3 + m*IQR] where Q1 and Q3 are the quartiles of c over ALL rows
\* of the input frame, whatever the cumulative keep-mask was at c's turn.
C1_KeptWithinInputBounds ==
    IqrDone =>
        \A j \in 1..Len(ret.out.rows) : \A c \in DOMAIN ret.rules.impact :
            WithinIqrBounds(ToNumeric(ret.out.rows[j][c]),
                            NumericSeries(df, c), config.iqr_multiplier)

\* C1 (as claimed): the bounds of a processed column are those of the rows still
\* kept by the cumulative keep-mask at the moment the column is processed.
C1_KeptWithinMaskedBounds ==
    IqrDone =>
        \A k \in 1..Len(ConfiguredCols) :
            LET s == NumericSeries(df, ConfiguredCols[k]) IN
            ~IqrDegenerate(s) =>
                \A i \in MaskAfter(Len(ConfiguredCols)) :
                    WithinIqrBounds(s[i], MaskedSeries(s, MaskAfter(k - 1)),
                                    config.iqr_multiplier)

\* C1 witness: two columns were processed, the first removed a row, and a row
\* with a value in the second column survived both.
C1_Witness ==
    /\ IqrDone
    /\ Len(ret.rules.keys) = 2
    /\ ret.rules.impact[ret.rules.keys[1]].rows_removed > 0
    /\ \E j \in 1..Len(ret.out.rows) :
          ToNumeric(ret.out.rows[j][ret.rules.keys[2]]) # NaN

\* the orderings of a list: the lists with the same entries, each as often
Orderings(columns) ==
    {p \in [1..Len(columns) -> {columns[i] : i \in 1..Len(columns)}] :
        \A c \in {columns[i] : i \in 1..Len(columns)} :
            Cardinality({i \in 1..Len(columns) : p[i] = c})
                = Cardinality({i \in 1..Len(columns) : columns[i] = c})}

\* C2: whatever the order of config.outliers.columns, remove_outliers returns
\* the same surviving rows (and raises for the same inputs); only the
\* per-column RuleImpact attribution may differ.
C2_OrderIndependentRows ==
    pc \in {"done", "raised"} =>
        \A p \in Orderings(config.columns) :
            LET other == remove_outliers(df, [config EXCEPT !.columns = p]) IN
            /\ other.raised = ret.raised
            /\ other.out = ret.out

\* C2 witness: two different columns were processed, rows were removed, and the
\* reversed list attributes the removals differently.
C2_Witness ==
    /\ pc = "done"
    /\ Len(config.columns) = 2
    /\ Len(ret.rules.keys) = 2
    /\ Len(ret.out.rows) < Len(df.rows)
    /\ LET other == remove_outliers(df,
                       [config EXCEPT !.columns = <<config.columns[2], config.columns[1]>>])
       IN \E c \in DOMAIN ret.rules.impact :
             other.rules.impact[c].rows_removed # ret.rules.impact[c].rows_removed

\* the records of rules, in dict order, chain from n_in rows to n_out rows
Chained(rules, n_in, n_out) ==
    LET n == Len(rules.keys) IN
    IF n = 0 THEN n_out = n_in
    ELSE /\ rules.impact[rules.keys[1]].rows_before = n_in
         /\ \A k \in 2..n :
               rules.impact[rules.keys[k]].rows_before
                   = rules.impact[rules.keys[k - 1]].rows_after
         /\ rules.impact[rules.keys[n]].rows_after = n_out

\* column c is skipped by the loop: absent from the frame, or degenerate
Skipped(c) ==
    \/ c \notin df.columns
    \/ config.method = "iqr" /\ IqrDegenerate(NumericSeries(df, c))
    \/ config.method = "zscore" /\ ZscoreDegenerate(NumericSeries(df, c))

RECURSIVE Processed(_, _)
Processed(columns, i) ==
    IF i > Len(columns) THEN <<>>
    ELSE (IF Skipped(columns[i]) THEN <<>> ELSE <<columns[i]>>)
         \o Processed(columns, i + 1)

ChainHolds ==
    /\ Chained(ret.rules, Len(df.rows), Len(ret.out.rows))
    /\ ret.rules.keys = Processed(config.columns, 1)

NoRepeatedColumn ==
    \A i, j \in 1..Len(config.columns) : config.columns[i] = config.columns[j] => i = j

\* C3 (as claimed): the RuleImpact records chain in configured column order,
\* from the number of input rows to the number of returned rows, and the
\* skipped columns (absent or degenerate) contribute no record.
C3_ChainAlways == pc = "done" => ChainHolds

\* C3 (as amended): the same, for a configured list that names no column
\* twice; a repeated name is processed again and its record replaced.
C3_ChainOfDistinctColumns == (pc = "done" /\ NoRepeatedColumn) => ChainHolds

\* C3 witness: two records, both removing rows, after a skipped column.
C3_Witness ==
    /\ pc = "done"
    /\ NoRepeatedColumn
    /\ Len(ret.rules.keys) = 2
    /\ \A c \in DOMAIN ret.rules.impact : ret.rules.impact[c].rows_removed > 0

KnownMethod == config.method \in {"iqr", "zscore"}

\* C6: remove_outliers raises ValueError whenever the method is neither 'iqr'
\* nor 'zscore', for every frame and every configured column list; it never
\* returns a frame for an unknown method.
C6_UnknownMethodRaises ==
    (pc \in {"done", "raised"} /\ ~KnownMethod) => ret.raised = "ValueError"

(***************************************************************************)
(* Properties of the validity engine and of both cleaning engines.         *)
(***************************************************************************)
\* the RuleImpact records the last call returned, whichever engine it was
EmittedImpacts ==
    IF pc = "done" THEN {ret.rules.impact[c] : c \in DOMAIN ret.rules.impact}
    ELSE IF pc \in {"applied", "reapplied"}
    THEN {ret.validity_rules.impact[c] : c \in DOMAIN ret.validity_rules.impact}
    ELSE {}

\* C4: every RuleImpact emitted by apply_validity_rules or remove_outliers has
\* rows_removed = rows_before - rows_after, rows_after >= 0, rows_removed >= 0.
C4_RuleImpactConsistent ==
    \A r \in EmittedImpacts :
        /\ r.rows_removed = r.rows_before - r.rows_after
        /\ r.rows_after >= 0
        /\ r.rows_removed >= 0

\* C4 witness: records of both kinds that removed rows: the drop policy's, and
\* an outlier column's after an earlier column had removed rows too.
C4_Witness ==
    \/ /\ pc = "applied"
       /\ config.invalid_hotel_nights_policy = "drop"
       /\ \E r \in EmittedImpacts : r.rows_removed > 0 /\ r.rows_after > 0
    \/ /\ pc = "done"
       /\ Len(ret.rules.keys) = 2
       /\ \A r \in EmittedImpacts : r.rows_removed > 0

Recompute == config.invalid_hotel_nights_policy = "recompute"

\* C5: apply_validity_rules with policy 'recompute', run again on its own
\* output, corrects nothing more: the second pass detects exactly the rows the
\* first left missing, recomputes none, and leaves the nights column as it was.
C5_RecomputeIdempotent ==
    (pc = "reapplied" /\ Recompute /\ "nights" \in df.columns) =>
        /\ ret.invalid_hotel_nights_meta.invalid_detected
               = prev.invalid_hotel_nights_meta.still_missing
        /\ ret.invalid_hotel_nights_meta.recomputed_success = 0
        /\ Len(ret.out.rows) = Len(df.rows)
        /\ \A i \in 1..Len(df.rows) : ret.out.rows[i]["nights"] = df.rows[i]["nights"]

\* C5 witness: a second pass after a first one that repaired one row and left
\* another missing.
C5_Witness ==
    /\ pc = "reapplied"
    /\ Recompute
    /\ "nights" \in df.columns
    /\ prev.invalid_hotel_nights_meta.recomputed_success > 0
    /\ prev.invalid_hotel_nights_meta.still_missing > 0

KnownPolicy == config.invalid_hotel_nights_policy \in {"recompute", "drop"}

\* C7: apply_validity_rules raises a configuration error whenever the policy is
\* neither 'recompute' nor 'drop', for every frame, with or without a nights
\* column; it never returns a result for an unknown policy.
C7_UnknownPolicyRaises ==
    (pc # "apply_validity_rules" /\ ~KnownPolicy) =>
        (pc = "raised" /\ ret.raised = "ValueError")

(***************************************************************************)
(* Properties of the aggregation engine.                                   *)
(***************************************************************************)
AggregateCalled == pc \in {"aggregated", "raised"}

KpiColumns == {UserAggregates[x][1] : x \in 1..Len(UserAggregates)}

\* the output has exactly the columns cols, in every row
HasColumns(out, cols) ==
    /\ out.columns = cols
    /\ \A k \in 1..Len(out.rows) : DOMAIN out.rows[k] = cols

\* C8 (as claimed): with user_id present the call succeeds whatever behavioural
\* or dimension columns are absent, and the output lacks just the aggregates
\* of the absent columns.
C8_AbsentColumnsOmitted ==
    (AggregateCalled /\ "user_id" \in df.columns) =>
        /\ ret.raised = "none"
        /\ HasColumns(ret.out,
              {"user_id"}
              \cup {UserAggregates[x][1] :
                      x \in {y \in 1..Len(UserAggregates) :
                                UserAggregates[y][2] \in df.columns}}
              \cup (DimColumns \cap df.columns))

\* C8 (as amended): with user_id and the ten behavioural columns present the
\* call succeeds whatever dimension columns are absent, and the output lacks
\* just those; an absent behavioural column makes the call raise KeyError.
C8_AbsentDimensionsOmitted ==
    (AggregateCalled /\ "user_id" \in df.columns) =>
        IF BehaviourColumns \subseteq df.columns
        THEN /\ ret.raised = "none"
             /\ HasColumns(ret.out,
                           {"user_id"} \cup KpiColumns \cup (DimColumns \cap df.columns))
        ELSE ret.raised = "KeyError"

\* C8 witness: a frame of several users without any dimension column was
\* aggregated.
C8_Witness ==
    /\ pc = "aggregated"
    /\ DimColumns \cap df.columns = {}
    /\ Len(ret.out.rows) >= 2

\* out has exactly one row per distinct value of column id of frame
OneRowPerId(frame, out, id) ==
    LET ids == {frame.rows[i][id] : i \in 1..Len(frame.rows)} IN
    /\ Len(out.rows) = Cardinality(ids)
    /\ \A v \in ids : Cardinality({k \in 1..Len(out.rows) : out.rows[k][id] = v}) = 1

\* C9 (as claimed): one row per distinct user_id, the null group included, with
\* or without dimension columns; KeyError only when user_id itself is absent.
C9_OneRowPerUserOrNoUserId ==
    AggregateCalled =>
        IF "user_id" \notin df.columns THEN ret.raised = "KeyError"
        ELSE ret.raised = "none" /\ OneRowPerId(df, ret.out, "user_id")

\* C9 (as amended): the same rows; KeyError exactly when user_id or one of the
\* ten behavioural columns is absent.
C9_OneRowPerUser ==
    AggregateCalled =>
        IF "user_id" \notin df.columns \/ ~(BehaviourColumns \subseteq df.columns)
        THEN ret.raised = "KeyError"
        ELSE ret.raised = "none" /\ OneRowPerId(df, ret.out, "user_id")

\* C9 witness: two rows without user_id and one with, dimension columns
\* present: two output rows, one of them the null group's.
C9_Witness ==
    /\ pc = "aggregated"
    /\ "gender" \in df.columns
    /\ Cardinality({i \in 1..Len(df.rows) : df.rows[i]["user_id"] = NaN}) = 2
    /\ Len(ret.out.rows) = 2
    /\ \E k \in 1..2 : ret.out.rows[k]["user_id"] = NaN

(***************************************************************************)
(* Properties of the feature builders.                                     *)
(***************************************************************************)
\* C10 (as claimed): whichever builder ran, its table has exactly one row per
\* distinct id of the input, one for the rows whose id is null included.
C10_OneRowPerDistinctId ==
    pc \in {"built user features", "built customer features"} =>
        OneRowPerId(df, ret.out, "user_id")

(***************************************************************************)
(* Properties of the features pipeline.                                    *)
(***************************************************************************)
AvgColumns == {"avg_" \o config.numeric_means[x] : x \in 1..Len(config.numeric_means)}

\* C11 (as claimed): in the table run_features writes no avg_* cell is null;
\* a customer whose sessions are all null for the source gets 0.
C11_AvgColumnsNullFree ==
    pc = "written" =>
        \A k \in 1..Len(ret.out.rows) : \A c \in AvgColumns :
            ret.out.rows[k][c].count > 0

(***************************************************************************)
(* Frame effects of the validity engine.                                   *)
(***************************************************************************)
TimestampColumns == {"check_in_time", "check_out_time"}

\* the rows whose nights is null (or does not parse) or <= 0 on input
InvalidOnInput ==
    {i \in 1..Len(df.rows) :
        ToNumeric(df.rows[i]["nights"]) = NaN \/ ToNumeric(df.rows[i]["nights"]) <= 0}

\* ceil((check_out_time - check_in_time) / 1 day) when that is >= 1, else null
StayNights(row) ==
    LET check_in == ToDatetime(row["check_in_time"])
        check_out == ToDatetime(row["check_out_time"])
    IN IF check_in # NaN /\ check_out # NaN /\ check_out > check_in
       THEN (check_out - check_in + DayUnits - 1) \div DayUnits
       ELSE NaN

SameShape ==
    /\ ret.out.columns = df.columns
    /\ Len(ret.out.rows) = Len(df.rows)

MetaAddsUp ==
    ret.invalid_hotel_nights_meta.recomputed_success
        + ret.invalid_hotel_nights_meta.still_missing
      = ret.invalid_hotel_nights_meta.invalid_detected

RecomputeCalled == pc \in {"applied", "raised"} /\ Recompute

\* C12 (as claimed): under 'recompute' the call returns the same rows in the
\* same order; a cell differs from the input only if it is the nights cell of a
\* row invalid on input, which holds the stay length or null; every other cell
\* is the input's; recomputed_success + still_missing = invalid_detected.
C12_OnlyInvalidNightsDiffer ==
    (RecomputeCalled /\ "nights" \in df.columns) =>
        /\ ret.raised = "none"
        /\ SameShape
        /\ \A i \in 1..Len(df.rows) : \A c \in df.columns :
              ret.out.rows[i][c] =
                 IF c = "nights" /\ i \in InvalidOnInput
                 THEN StayNights(df.rows[i]) ELSE df.rows[i][c]
        /\ MetaAddsUp

\* C12 (as amended): the same, for a frame that has nights and both timestamp
\* columns, except that the cells of the two timestamp columns are replaced by
\* their parsed values (null where they do not parse); with nights but without
\* a timestamp column the call raises KeyError.
C12_OnlyInvalidNightsAndParsedTimes ==
    (RecomputeCalled /\ "nights" \in df.columns) =>
        IF TimestampColumns \subseteq df.columns
        THEN /\ ret.raised = "none"
             /\ SameShape
             /\ \A i \in 1..Len(df.rows) : \A c \in df.columns :
                   ret.out.rows[i][c] =
                      IF c = "nights" /\ i \in InvalidOnInput THEN StayNights(df.rows[i])
                      ELSE IF c \in TimestampColumns THEN ToDatetime(df.rows[i][c])
                      ELSE df.rows[i][c]
             /\ MetaAddsUp
        ELSE ret.raised = "KeyError"

\* C12 witness: one row repaired from its timestamps, beside a valid row whose
\* timestamps would have given another stay length.
C12_Witness ==
    /\ pc = "applied" /\ Recompute
    /\ TimestampColumns \cup {"nights"} \subseteq df.columns
    /\ Len(df.rows) = 2
    /\ 1 \in InvalidOnInput /\ ret.out.rows[1]["nights"] # NaN
    /\ 2 \notin InvalidOnInput /\ StayNights(df.rows[2]) # df.rows[2]["nights"]

Drop == config.invalid_hotel_nights_policy = "drop"

\* the positions of the rows whose nights is non-null and > 0
ValidOnInput == (1..Len(df.rows)) \ InvalidOnInput

\* C13: under 'drop' the output is exactly the input rows whose nights is
\* non-null and > 0, in input order and unmodified, and dropped_rows =
\* invalid_detected = rows_removed of the 'invalid_hotel_nights' RuleImpact.
C13_DropKeepsValidRows ==
    (pc = "applied" /\ Drop /\ "nights" \in df.columns) =>
        /\ ret.out.columns = df.columns
        /\ Len(ret.out.rows) = Cardinality(ValidOnInput)
        /\ \A k \in 1..Len(ret.out.rows) :
              ret.out.rows[k] =
                 df.rows[CHOOSE i \in ValidOnInput :
                            Cardinality({j \in ValidOnInput : j <= i}) = k]
        /\ ret.invalid_hotel_nights_meta.dropped_rows = Cardinality(InvalidOnInput)
        /\ ret.invalid_hotel_nights_meta.invalid_detected = Cardinality(InvalidOnInput)
        /\ ret.validity_rules.impact["invalid_hotel_nights"].rows_removed
              = Cardinality(InvalidOnInput)

\* C13 witness: a null-nights row dropped from in front of a valid row.
C13_Witness ==
    /\ pc = "applied" /\ Drop
    /\ "nights" \in df.columns
    /\ Len(df.rows) = 2
    /\ df.rows[1]["nights"] = NaN
    /\ ret.out.rows = <<df.rows[2]>>

(***************************************************************************)
(* Properties of the data-quality checks.                                  *)
(***************************************************************************)
ValidityCalled == pc \in {"applied", "raised"}

\* the findings counted on the input
Findings == ret.validation_checks

FlagOnly ==
    /\ Findings.duplicates.decision = "flag_only"
    /\ \A c \in DOMAIN Findings.range_checks : Findings.range_checks[c].decision = "flag_only"
    /\ \A c \in DOMAIN Findings.logical_checks :
          Findings.logical_checks[c].decision = "flag_only"

\* C14: duplicate, range and order findings are observational only.  Whether
\* the call raises depends on the nights column, the policy and the timestamp
\* columns alone; when it returns the findings are flag-only; with nights
\* absent the output is the input, and under 'recompute' it has the input's
\* rows with no cell altered but nights of the invalid rows and the parsed
\* timestamps, whatever was counted.
C14_FindingsObservational ==
    ValidityCalled =>
        /\ ret.raised # "none" <=>
              /\ "nights" \in df.columns
              /\ ~Drop
              /\ ~Recompute \/ ~(TimestampColumns \subseteq df.columns)
        /\ ret.raised = "none" =>
              /\ FlagOnly
              /\ "nights" \notin df.columns => ret.out = df
              /\ ("nights" \in df.columns /\ Recompute) =>
                    /\ SameShape
                    /\ \A i \in 1..Len(df.rows) : \A c \in df.columns :
                          \/ c = "nights" /\ i \in InvalidOnInput
                          \/ c \in TimestampColumns
                          \/ ret.out.rows[i][c] = df.rows[i][c]

\* C14 witness: 'recompute' over a frame with a duplicate, a seats value out
\* of range and an inverted session returned as many rows as it was given.
C14_Witness ==
    /\ pc = "applied" /\ Recompute
    /\ "nights" \in df.columns
    /\ Findings.duplicates.duplicate_rows > 0
    /\ Findings.range_checks.seats.invalid_count > 0
    /\ Findings.logical_checks.session_end_before_start.invalid_count > 0
    /\ Len(ret.out.rows) = Len(df.rows)

\* the key columns the duplicate check resolves to
ResolvedKeys ==
    IF "session_id" \in df.columns THEN {"session_id"}
    ELSE IF {"user_id", "session_start", "session_end"} \subseteq df.columns
    THEN {"user_id", "session_start", "session_end"}
    ELSE IF {"user_id", "session_start"} \subseteq df.columns
    THEN {"user_id", "session_start"}
    ELSE {}

RowKey(i) == [c \in ResolvedKeys |-> df.rows[i][c]]

\* the rows carrying the same key as row i, itself included
SameKey(i) == {j \in 1..Len(df.rows) : RowKey(j) = RowKey(i)}

\* C15: duplicate_rows counts the rows repeating the key of an earlier row,
\* rows_in_duplicate_groups the rows whose key occurs more than once,
\* duplicate_groups the distinct keys occurring more than once, null keys
\* counted like any other, so rows_in_duplicate_groups = duplicate_rows +
\* duplicate_groups; without key columns the check is skipped with zeros.
C15_DuplicateCounts ==
    pc = "detected" =>
        LET n == Len(df.rows)
            repeated == {i \in 1..n : Cardinality(SameKey(i)) > 1}
        IN IF ResolvedKeys = {}
           THEN /\ ret.status = "skipped"
                /\ ret.duplicate_rows = 0
                /\ ret.rows_in_duplicate_groups = 0
                /\ ret.duplicate_groups = 0
           ELSE /\ ret.status = "evaluated"
                /\ ret.duplicate_rows = n - Cardinality({RowKey(i) : i \in 1..n})
                /\ ret.rows_in_duplicate_groups = Cardinality(repeated)
                /\ ret.duplicate_groups = Cardinality({RowKey(i) : i \in repeated})
                /\ ret.rows_in_duplicate_groups = ret.duplicate_rows + ret.duplicate_groups

\* C15 witness: two duplicate groups over a composite key, one of them of
\* rows whose key is null.
C15_Witness ==
    /\ pc = "detected"
    /\ Cardinality(ResolvedKeys) > 1
    /\ ret.duplicate_groups = 2
    /\ ret.rows_in_duplicate_groups = 4
    /\ \E i \in 1..Len(df.rows) :
          df.rows[i]["user_id"] = NaN /\ Cardinality(SameKey(i)) > 1

(***************************************************************************)
(* Null handling of the outlier engine.                                    *)
(***************************************************************************)
\* the columns the loop processed, as a set
ProcessedCols ==
    LET p == Processed(config.columns, 1) IN {p[k] : k \in 1..Len(p)}

\* x is null or |x - mean| <= threshold * std over the non-null values of s
\* (threshold in halves)
WithinZscoreBounds(x, s, threshold) ==
    \/ x = NaN
    \/ LET nn == {i \in DOMAIN s : s[i] # NaN}
           n == Cardinality(nn)
           total == SumOver(s, nn)
           squares == SumOver([i \in DOMAIN s |-> s[i] * s[i]], nn)
       IN 4 * (n * x - total) * (n * x - total)
              <= threshold * threshold * (n * squares - total * total)

\* row i holds, in processed column c, a non-null value outside c's bounds
OutOfBounds(i, c) ==
    LET s == NumericSeries(df, c) IN
    /\ s[i] # NaN
    /\ IF config.method = "iqr" THEN ~WithinIqrBounds(s[i], s, config.iqr_multiplier)
       ELSE ~WithinZscoreBounds(s[i], s, config.zscore_threshold)

\* C16: under 'iqr' and 'zscore' alike, the returned rows are exactly the rows
\* that hold no non-null value outside the bounds of a processed column, in
\* input order: a null (or non-numeric) value never removes a row, and a row
\* null in every processed column survives.
C16_NullNeverRemovesRow ==
    pc = "done" =>
        LET cols == ProcessedCols
            inliers == {i \in 1..Len(df.rows) : \A c \in cols : ~OutOfBounds(i, c)}
        IN /\ Len(ret.out.rows) = Cardinality(inliers)
           /\ \A k \in 1..Len(ret.out.rows) :
                 ret.out.rows[k] =
                    df.rows[CHOOSE i \in inliers : Cardinality({j \in inliers : j <= i}) = k]
           /\ \A i \in 1..Len(df.rows) :
                 (\A c \in cols : ToNumeric(df.rows[i][c]) = NaN) => i \in inliers

\* C16 witness: under 'iqr' a row that is null in one processed column and not
\* a number in the other is all that is returned; the other rows were removed.
C16_Witness ==
    /\ IqrDone
    /\ Cardinality(ProcessedCols) = 2
    /\ Len(df.rows) = 3 /\ Len(ret.out.rows) = 1
    /\ \E c, d \in ProcessedCols :
          ret.out.rows[1][c] = NaN /\ ret.out.rows[1][d] = NonNumeric

(***************************************************************************)
(* Both user-level tables, for what is claimed of their dimensions.        *)
(***************************************************************************)
InitUserTables == InitAggregation \/ InitFeatures

NextUserTables == AggregateUserLevel \/ BuildUserFeatures

SpecUserTables == InitUserTables /\ [][NextUserTables]_vars

\* the positions of the input rows of user uid, in row order
RowsOfUser(uid) == {i \in 1..Len(df.rows) : df.rows[i]["user_id"] = uid}

\* C17: in either user-level table, each dimension column of a user's row
\* holds the value of the first of that user's input rows, in row order, that
\* is non-null for the dimension, and null exactly when all of them are null.
C17_FirstNonNullDimension ==
    pc \in {"aggregated", "built user features"} =>
        \A k \in 1..Len(ret.out.rows) : \A c \in DimColumns \cap df.columns :
            LET known == {i \in RowsOfUser(ret.out.rows[k]["user_id"]) : df.rows[i][c] # NaN}
            IN IF known = {} THEN ret.out.rows[k][c] = NaN
               ELSE /\ ret.out.rows[k][c] # NaN
                    /\ \E i \in known :
                          /\ \A j \in known : i <= j
                          /\ ret.out.rows[k][c] = df.rows[i][c]

\* C17 witness: a user whose rows hold gender null, then 2, then 1 is given
\* gender 2, neither the first row's value nor the last known one.
C17_Witness ==
    /\ pc = "aggregated"
    /\ Len(df.rows) = 3 /\ Len(ret.out.rows) = 1
    /\ "gender" \in df.columns
    /\ df.rows[1]["gender"] = NaN /\ df.rows[2]["gender"] = 2 /\ df.rows[3]["gender"] = 1
    /\ ret.out.rows[1]["gender"] = 2

(***************************************************************************)
(* Properties of run_k_sweep.                                              *)
(***************************************************************************)
KSwept == pc = "k swept"

NotFitted(row) ==
    /\ row.k \notin DOMAIN prev
    /\ row.inertia = "None"
    /\ row.silhouette = "None"

\* C18 as stated: whenever run_k_sweep returns, every candidate k = 1 has
\* status "invalid: k must be at least 2" and every candidate k >= n_samples
\* has status "invalid: k must be < n_samples"; neither is fitted and both
\* have inertia and silhouette None.
C18_DegenerateStatuses ==
    KSwept =>
        \A x \in 1..Len(ret.out) :
            /\ ret.out[x].k = 1 =>
                  /\ ret.out[x].status = "invalid: k must be at least 2"
                  /\ NotFitted(ret.out[x])
            /\ ret.out[x].k >= Len(df.rows) =>
                  /\ ret.out[x].status = "invalid: k must be < n_samples"
                  /\ NotFitted(ret.out[x])

\* C18 amended: whenever run_k_sweep returns, every candidate k < 2 has
\* status "invalid: k must be at least 2", also when k >= n_samples, and
\* every candidate k >= 2 with k >= n_samples has status "invalid: k must be
\* < n_samples"; neither is fitted and both have inertia and silhouette None.
C18_DegenerateStatusesInTestOrder ==
    KSwept =>
        \A x \in 1..Len(ret.out) :
            /\ ret.out[x].k < 2 =>
                  /\ ret.out[x].status = "invalid: k must be at least 2"
                  /\ NotFitted(ret.out[x])
            /\ (ret.out[x].k >= 2 /\ ret.out[x].k >= Len(df.rows)) =>
                  /\ ret.out[x].status = "invalid: k must be < n_samples"
                  /\ NotFitted(ret.out[x])

\* a one-sample table swept over k = 1 and k = 2
C18_Witness ==
    /\ KSwept
    /\ Len(df.rows) = 1
    /\ config.k_values = <<1, 2>>
    /\ ret.out[1].status = "invalid: k must be at least 2"
    /\ ret.out[2].status = "invalid: k must be < n_samples"

KSweepCalled == pc \in {"k swept", "k sweep raised"}

\* the table and the configuration pass feature preparation
ValidEvaluationInput == _prepare_features(df, config.evaluation).raised = "none"

SingleCluster(k) ==
    k \in DOMAIN prev /\ Cardinality({prev[k][i] : i \in DOMAIN prev[k]}) < 2

Degenerate(k) == k < 2 \/ k >= Len(df.rows) \/ SingleCluster(k)

\* C19: on a valid feature table and configuration with a non-empty candidate
\* list, run_k_sweep returns; the result has one row per candidate in input
\* order; a degenerate candidate (k < 2, k >= n_samples, single resulting
\* cluster) has a status other than "ok" and silhouette None, and every
\* other candidate is fitted: status "ok" with inertia and silhouette set.
C19_SweepCompletes ==
    (KSweepCalled /\ ValidEvaluationInput /\ config.k_values # <<>>) =>
        /\ pc = "k swept"
        /\ Len(ret.out) = Len(config.k_values)
        /\ \A x \in 1..Len(ret.out) :
              /\ ret.out[x].k = config.k_values[x]
              /\ Degenerate(ret.out[x].k) =>
                    /\ ret.out[x].status # "ok"
                    /\ ret.out[x].silhouette = "None"
              /\ ~Degenerate(ret.out[x].k) =>
                    /\ ret.out[x].k \in DOMAIN prev
                    /\ ret.out[x].status = "ok"
                    /\ ret.out[x].inertia = "float"
                    /\ ret.out[x].silhouette = "float"

\* three samples swept over k = 1, 2, 3: only k = 2 is fitted
C19_Witness ==
    /\ pc = "k swept"
    /\ Len(df.rows) = 3
    /\ config.k_values = <<1, 2, 3>>
    /\ ret.out[1].status = "invalid: k must be at least 2"
    /\ ret.out[2].status = "ok"
    /\ ret.out[3].status = "invalid: k must be < n_samples"

\* three samples swept over k = 2, 0, 2 where KMeans puts all in one cluster
C19_WitnessSingleCluster ==
    /\ pc = "k swept"
    /\ config.k_values = <<2, 0, 2>>
    /\ ret.out[1].status = "invalid: single cluster"
    /\ ret.out[1].inertia = "float"
    /\ ret.out[3].status = "invalid: single cluster"

(***************************************************************************)
(* Properties of run_seed_sweep.                                           *)
(***************************************************************************)
ExactlyOne == [one |-> TRUE, num |-> 1, den |-> 1]

\* C20: run_seed_sweep returns one row per seed in input order; the first
\* row has ari_to_reference exactly 1.0, and every later row has the ARI of
\* its seed's labels against the labels of the first seed, also when a seed
\* value occurs more than once.
C20_FirstSeedIsReference ==
    pc = "seeds swept" =>
        /\ Len(ret.out) = Len(config.seeds)
        /\ \A x \in 1..Len(ret.out) : ret.out[x].seed = config.seeds[x]
        /\ ret.out[1].ari_to_reference = ExactlyOne
        /\ \A x \in 2..Len(ret.out) :
              ret.out[x].ari_to_reference =
                  adjusted_rand_score(prev[config.seeds[1]], prev[config.seeds[x]])

\* seeds 7, 11, 7 where seed 11 clusters differently: the third row agrees
\* with the first seed, not with the seed before it
C20_Witness ==
    /\ pc = "seeds swept"
    /\ config.seeds = <<7, 11, 7>>
    /\ ret.out[1].ari_to_reference = ExactlyOne
    /\ ret.out[2].ari_to_reference.one = FALSE
    /\ ret.out[3].ari_to_reference = ExactlyOne
    /\ adjusted_rand_score(prev[11], prev[7]) # ExactlyOne

(***************************************************************************)
(* Properties of run_segmentation.                                         *)
(***************************************************************************)
SegmentationCalled == pc \in {"segmented", "segmentation raised"}

\* what _prepare_features rejects by its own checks, before the scaler
EvaluationValidation(frame, cfg) ==
    IF _validate_features(frame, cfg.features) # "none"
    THEN _validate_features(frame, cfg.features)
    ELSE _validate_evaluation_config(cfg, Len(cfg.features))

\* C21: for every frame, feature list and PCA setting (n_init valid),
\* run_segmentation rejects by its own check before any scaler, PCA or
\* K-Means fit exactly when the validation of _prepare_features rejects,
\* and with the same exception.
C21_SameValidation ==
    (SegmentationCalled /\ config.segmentation.n_init >= 1) =>
        LET rejected == EvaluationValidation(df, config.segmentation) IN
        /\ rejected # "none" <=>
              SegmentationStage(df, config.segmentation, config.id_column)
                  = "_validate_features"
        /\ rejected # "none" => ret.raised = rejected

C22_WitnessNoIdColumn ==
    /\ pc = "segmented"
    /\ config.id_column = NoColumn
    /\ Len(ret.out.rows) = 2
    /\ ret.out.rows[1] = [segment |-> 1]

(***************************************************************************)
(* Properties of map_perks.                                                *)
(***************************************************************************)
EntriesFor(segment) ==
    {x \in 1..Len(config) : config[x].key.value = segment}

\* C23: with a mapping of at least one entry, map_perks returns the columns
\* user_id, segment, persona_name, primary_perk and exactly one row per
\* assignment row, in order; the row's
\* persona_name and primary_perk are those of a mapping entry whose integer
\* segment id equals the row's segment, and null when there is no such
\* entry - for every mapping, also one whose keys convert to one integer.
C23_OneRowPerAssignment ==
    (pc \in {"mapped", "mapping raised"} /\ config # <<>>) =>
        /\ pc = "mapped"
        /\ ret.out.columns = <<"user_id", "segment", "persona_name", "primary_perk">>
        /\ Len(ret.out.rows) = Len(df.rows)
        /\ \A i \in 1..Len(df.rows) :
              /\ ret.out.rows[i].user_id = df.rows[i].user_id
              /\ ret.out.rows[i].segment = df.rows[i].segment
              /\ IF EntriesFor(df.rows[i].segment) = {}
                 THEN /\ ret.out.rows[i].persona_name = NaN
                      /\ ret.out.rows[i].primary_perk = NaN
                 ELSE \E x \in EntriesFor(df.rows[i].segment) :
                        /\ ret.out.rows[i].persona_name = config[x].persona_name
                        /\ ret.out.rows[i].primary_perk = config[x].primary_perk

\* the same for mappings whose keys convert to distinct integers only
OneRowPerAssignmentDistinctIds ==
    (/\ pc \in {"mapped", "mapping raised"}
     /\ \A x, y \in 1..Len(config) : x # y => config[x].key.value # config[y].key.value)
        => C23_OneRowPerAssignment

(***************************************************************************)
(* Properties of the `run` command.                                        *)
(***************************************************************************)
DefaultRun ==
    /\ config.entry = "cli" /\ config.command = "run"
    /\ config.mode = "sample" /\ config.seed = DefaultSeed

\* C24: `run` with default arguments reaches run_end_to_end with every
\* parameter bound, and unless a stage fails on its inputs the process ends
\* with the stages EDA, features, segmentation, perks done in that order and
\* return code 0.
C24_RunExitsZero ==
    /\ (DefaultRun /\ pc = "exited") =>
          \/ ret.raised = "stage error"
          \/ /\ ret = Returned(0)
             /\ df.stages = <<"eda", "features", "segmentation", "perks">>
    /\ (DefaultRun /\ pc = "cmd_run") => RunEndToEndParameters \subseteq CmdRunKeywords

\* C25: every K-Means fit of the k sweep, the algorithm comparison and the
\* final fit of a run uses the run's seed as random_state.
C25_SeedIsRandomState ==
    \A x \in 1..Len(df.fits) :
        df.fits[x].fit \in {"run_k_sweep", "compare_algorithms", "run_segmentation"}
            => df.fits[x].random_state = config.seed

(***************************************************************************)
(* Properties of run_eda.                                                  *)
(***************************************************************************)
\* the frame `part` went into the making of the frame `whole`
RECURSIVE MadeFrom(_, _)
MadeFrom(whole, part) ==
    \/ whole = part
    \/ Len(whole) = 2 /\ MadeFrom(whole[2], part)

CallsOf(fn) == {x \in 1..Len(df.calls) : df.calls[x].fn = fn}

\* no call reads a frame that a later call returns
Downstream ==
    \A x, y \in 1..Len(df.calls) :
        x < y => ~MadeFrom(df.calls[x].arg, df.calls[y].out)

\* every remove_outliers call takes the frame an earlier apply_validity_rules
\* call returned
OutliersAfterValidity ==
    \A x \in CallsOf("remove_outliers") :
        \E y \in CallsOf("apply_validity_rules") :
            y < x /\ df.calls[x].arg = df.calls[y].out

\* C26 as stated: in run_eda, for the full and for the cohort frame,
\* remove_outliers takes exactly the frame an earlier apply_validity_rules
\* call returned, aggregate_user_level takes exactly the frame an earlier
\* remove_outliers call returned, and no call reads a later call's output.
C26_StagesInOrder ==
    /\ OutliersAfterValidity
    /\ \A x \in CallsOf("aggregate_user_level") :
          \E y \in CallsOf("remove_outliers") :
              y < x /\ df.calls[x].arg = df.calls[y].out
    /\ Downstream

\* C26 amended: as above, but aggregate_user_level takes the frame that
\* SESSION_CLEAN_SCHEMA.validate returned for the output of an earlier
\* remove_outliers call.
C26_StagesInOrderThroughSchema ==
    /\ OutliersAfterValidity
    /\ \A x \in CallsOf("aggregate_user_level") :
          \E y \in CallsOf("remove_outliers") :
              /\ y < x
              /\ df.calls[x].arg = <<"SESSION_CLEAN_SCHEMA.validate", df.calls[y].out>>
    /\ Downstream

\* both frames have gone through validity rules, outlier removal and
\* aggregation
C26_Witness ==
    /\ pc = "summaries"
    /\ Len(df.calls) = 6
    /\ df.calls[5].arg = df.frames.full_df_clean
    /\ df.calls[6].arg = df.frames.cohort_df_clean
    /\ MadeFrom(df.frames.cohort_user, <<"filter_session_level", <<"raw_full">>>>)

\* C27: with a loadable configuration of output format html and inputs on
\* which no stage fails, run_eda never raises: the metadata stage calls
\* build_metadata with keywords it accepts, and every stage completes until
\* run_eda returns.
C27_RunEdaCompletes ==
    (config.fails = "none" /\ config.output_format = "html") =>
        /\ pc # "raised"
        /\ pc = "build_metadata" =>
              Binds(RunEdaMetadataKeywords, BuildMetadataParameters, BuildMetadataRequired)

\* C28: when run_eda has raised, no data or metadata artifact of the run has
\* been written and `latest` is what it was before the run.
C28_NoPartialOutput ==
    pc = "raised" =>
        /\ prev.written \cap (DataArtifacts \cup TableArtifacts \cup MetadataArtifacts) = {}
        /\ prev.latest = config.latest

(***************************************************************************)
(* Properties of compare_algorithms.                                       *)
(***************************************************************************)
Distinct(labels) == Cardinality({labels[i] : i \in 1..Len(labels)})

\* C29: compare_algorithms does not raise on the outcome of a fit: once
\* K-Means is fitted it returns, and a labelling on which the silhouette is
\* undefined (fewer than 2 samples, fewer than 2 distinct labels, as many
\* distinct labels as samples) has silhouette None in its row.
C29_DegenerateOutcomeIsNone ==
    (/\ pc \in {"compared", "comparison raised"}
     /\ KMeansFitted(df, config.evaluation, config.kmeans_k)) =>
        /\ pc = "compared"
        /\ (Distinct(prev.kmeans) < 2 \/ Distinct(prev.kmeans) = Len(prev.kmeans))
              => ret.out[1].silhouette = "None"
        /\ LET kept == NonNoise(prev.dbscan) IN
           (Len(kept) < 2 \/ Distinct(kept) < 2 \/ Distinct(kept) = Len(kept))
              => ret.out[2].silhouette = "None"

(***************************************************************************)
(* Properties of the caller's frame.                                       *)
(***************************************************************************)
\* C30: after any sequence of calls of apply_validity_rules,
\* fix_invalid_hotel_nights, remove_outliers, aggregate_user_level,
\* build_user_features and run_segmentation, returning or raising, the
\* caller's frame has the rows, columns and values it had before the calls.
C30_CallerFrameUnchanged == df = prev

\* fix_invalid_hotel_nights has returned a frame with a recomputed nights
\* cell, and the caller's frame still has the invalid one
C30_Witness ==
    /\ pc = "validity"
    /\ config # None
    /\ config.fn = "fix_invalid_hotel_nights"
    /\ ret.raised = "none"
    /\ Len(df.rows) = 1
    /\ "nights" \in df.columns
    /\ df.rows[1]["nights"] = 0
    /\ Len(ret.out.rows) = 1
    /\ ret.out.rows[1]["nights"] = 1
    /\ df = prev

====
